---------------------------- MODULE Spec2Model ----------------------------
(***************************************************************************)
(* Device side of the dashboard synchronisation protocol:                  *)
(* useSyncQueriesExternal (the coordinator hook) and executeExpoCommand    *)
(* (the remote command registry).                                          *)
(*                                                                         *)
(* The query cache, mutation cache and onlineManager are the external      *)
(* data-fetching library; their operations are modelled at the places      *)
(* where the hook calls them.  Dehydrate (./hydration), useMySocket and    *)
(* the interceptor setup functions (./sendNetworkRequest) are not part of  *)
(* the available sources and are modelled from the specification.          *)
(***************************************************************************)
EXTENDS Integers, Sequences, FiniteSets, TLC

VARIABLES
    isConnected,     \* useMySocket().isConnected
    handlers,        \* channel -> number of handlers installed by socket.on
    cacheListeners,  \* number of listeners installed by queryCache.subscribe
    queries,         \* the query cache, in insertion order
    mutations,       \* the mutation cache, in insertion order
    online,          \* onlineManager.isOnline()
    emitted,         \* the socket.emit calls made while handling the latest event
    changeLog,       \* history: the sync message due at each cache change of that event
    mirror,          \* history: the latest query-sync payload of this connection
    tracking,        \* the histories the behaviour records: "mirror", "messages"
    lastEvent,       \* history: channel and target of the latest event
    rtTarget,        \* router inputs and result (shouldProcessMessage applied)
    rtCurrent,
    rtResult,
    asyncStorage,      \* props.asyncStorage: a storage collaborator is configured
    networkMonitoring, \* props.networkMonitoring: the interceptor kinds flagged true
    runtime,           \* what the JavaScript runtime exposes: global.require, native APIs
    deviceIdText,      \* props.deviceId as written: its characters, or Missing
    expoDevTools,      \* props.expoDevTools: absent, or its enabled flag
    nodeEnv,           \* process.env.NODE_ENV when the package is loaded
    hook,              \* the hook call: not yet made, threw, mounted, or crashed
    store,             \* the storage collaborator's contents: key -> value or Absent
    storageTasks,      \* suspended runs of the storage handlers
    slots,             \* kind -> remove<Kind>InterceptorRef.current holds a disposer
    taps,              \* kind -> number of installed taps
    implementations,   \* command type -> its current implementation
    cmdTasks,          \* suspended executeExpoCommand calls, as indexes of calls
    calls              \* history: every executeExpoCommand call and what it emitted

syncVars  == <<queries, mutations, online, emitted, changeLog, mirror>>
lifeVars  == <<isConnected, handlers, cacheListeners, hook>>
routeVars == <<rtTarget, rtCurrent, rtResult>>
cfgVars   == <<asyncStorage, networkMonitoring, runtime, deviceIdText,
               expoDevTools, nodeEnv>>
storeVars == <<store, storageTasks>>
netVars   == <<slots, taps>>
cmdVars   == <<implementations, cmdTasks, calls>>
sideVars  == <<cfgVars, storeVars, netVars, cmdVars>>
vars == <<syncVars, lifeVars, routeVars, sideVars, lastEvent, tracking>>

--------------------------------------------------------------------------
(* Bounds of the model *)

MaxMutations == 1     \* mutation records the application creates
MaxStorageTasks == 1  \* storage handler runs suspended at the same time
MaxInterleaved == 2   \* the same, where the interleaving of runs is studied
MaxCalls == 2         \* executeExpoCommand calls in a behaviour

--------------------------------------------------------------------------
(* Identities and message vocabularies *)

deviceId == "dev-A"
OtherDevice == "dev-B"
Broadcast == "All"
Targets == {deviceId, OtherDevice, Broadcast}

\* identifiers used to exercise the router alone
DeviceIds == {"dev-A", "dev-B", "dev-C", "dev-D", "dev-E", "dev-F",
              "dev-G", "dev-H", "dev-I", "All", "all", ""}

Channels == {"request-initial-state", "online-manager", "query-action",
             "async-storage-action", "request-async-storage",
             "network-monitoring-action", "request-network-monitoring",
             "expo-command-action", "request-expo-devtools-status"}

QueryActions == {"ACTION-REFETCH", "ACTION-INVALIDATE", "ACTION-RESET",
                 "ACTION-REMOVE", "ACTION-DATA-UPDATE",
                 "ACTION-TRIGGER-ERROR", "ACTION-RESTORE-ERROR",
                 "ACTION-TRIGGER-LOADING", "ACTION-RESTORE-LOADING",
                 "ACTION-ONLINE-MANAGER-ONLINE", "ACTION-ONLINE-MANAGER-OFFLINE",
                 "success",
                 "ACTION-CLEAR-MUTATION-CACHE", "ACTION-CLEAR-QUERY-CACHE"}

OnlineActions == {"ACTION-ONLINE-MANAGER-ONLINE", "ACTION-ONLINE-MANAGER-OFFLINE"}

\* query keys: arrays of segments; <<1>> is a proper prefix of <<1, 2>>
Keys == {<<1>>, <<1, 2>>}
\* the keys the application observes (a mounted observer makes a query active)
ActiveKeys == {<<1, 2>>}
NoData == "undefined"
Data == {"d1", "d2"}
\* what the application's queryFn resolves to
ServerData == {"d1"}
NoSync == [type |-> "none"]

--------------------------------------------------------------------------
(* Targeting router *)

\* variant: a router that accepts every target
shouldProcessAll(t, c) == TRUE

\* variant: a router without the broadcast sentinel
shouldProcessExact(targetDeviceId, currentDeviceId) ==
    targetDeviceId = currentDeviceId

\* shouldProcessMessage({targetDeviceId, currentDeviceId})
shouldProcessMessage(targetDeviceId, currentDeviceId) ==
    targetDeviceId = currentDeviceId \/ targetDeviceId = "All"


--------------------------------------------------------------------------
(* The data-fetching library, as the hook uses it *)

\* hashKey: the JSON text of the key, an injective encoding of the array
RECURSIVE hashKey(_)
hashKey(k) ==
    IF k = <<>> THEN 0
    ELSE 3 * hashKey(SubSeq(k, 1, Len(k) - 1)) + k[Len(k)]

Hashes == {hashKey(k) : k \in Keys}
UnknownHash == hashKey(<<>>)

\* partialMatchKey(a, b): every index of the filter key b matches in a
partialMatchKey(a, b) ==
    /\ Len(b) <= Len(a)
    /\ \A i \in 1..Len(b) : a[i] = b[i]

\* A filter that matches exactly one query (what {queryKey, exact: true} does)
exactMatchKey(a, b) == a = b

\* matchQuery(filters, query) with the Query object itself passed as filters:
\* only its queryKey is read, exact/type/stale/fetchStatus/predicate are absent
matchQuery(filterKey, queryKey) == partialMatchKey(queryKey, filterKey)

\* new Query(): the state of a query built without initial data
initialQuery(k) ==
    [hash |-> hashKey(k), key |-> k, status |-> "pending", data |-> NoData,
     fetchStatus |-> "idle", stash |-> "none", forcedFn |-> FALSE,
     retryer |-> "none", invalidated |-> FALSE, active |-> k \in ActiveKeys]

\* A variant that falls back to the first query of the cache
queryIndexOrFirst(qs, h) ==
    IF \E i \in 1..Len(qs) : qs[i].hash = h
    THEN CHOOSE i \in 1..Len(qs) : qs[i].hash = h
    ELSE IF Len(qs) > 0 THEN 1 ELSE 0

\* queryCache.get(queryHash): the position of the query, 0 when absent
queryIndex(qs, h) ==
    IF \E i \in 1..Len(qs) : qs[i].hash = h
    THEN CHOOSE i \in 1..Len(qs) : qs[i].hash = h
    ELSE 0

removeAt(s, i) == SubSeq(s, 1, i - 1) \o SubSeq(s, i + 1, Len(s))

\* Dehydrate(queryClient): the transmissible snapshot of both caches
dehydrateQuery(q) ==
    [queryHash |-> q.hash, queryKey |-> q.key,
     state |-> [status |-> q.status, data |-> q.data,
                fetchStatus |-> q.fetchStatus, isInvalidated |-> q.invalidated],
     observers |-> IF q.active THEN 1 ELSE 0]

dehydrateMutation(m) == [mutationId |-> m.id, state |-> [status |-> m.status]]

Dehydrate(qs, ms) ==
    [queries   |-> [i \in 1..Len(qs) |-> dehydrateQuery(qs[i])],
     mutations |-> [i \in 1..Len(ms) |-> dehydrateMutation(ms[i])]]

\* The part of the process the handlers of one event read and write
\* (an event starts with nothing emitted yet)
World ==
    [queries |-> queries, mutations |-> mutations, online |-> online,
     emitted |-> <<>>, changeLog |-> <<>>]

\* history: the payload of the last query-sync among the emissions, if any
RECURSIVE lastSync(_, _)
lastSync(em, before) ==
    IF em = <<>> THEN before
    ELSE IF em[Len(em)].event = "query-sync" THEN em[Len(em)].msg
         ELSE lastSync(SubSeq(em, 1, Len(em) - 1), before)

Commit(w) ==
    /\ queries' = w.queries
    /\ mutations' = w.mutations
    /\ online' = w.online
    /\ emitted' = w.emitted
    /\ changeLog' = w.changeLog
    /\ mirror' = IF "mirror" \in tracking THEN lastSync(w.emitted, mirror)
               ELSE mirror
    /\ UNCHANGED tracking

SyncMessage(w) ==
    [type |-> "dehydrated-state",
     state |-> Dehydrate(w.queries, w.mutations),
     isOnlineManagerOnline |-> w.online,
     persistentDeviceId |-> deviceId]

Emit(w, site, event, payload) ==
    [w EXCEPT !.emitted = Append(@, [site |-> site, event |-> event, msg |-> payload])]

\* variant: a listener that emits twice per change
OnCacheChangeTwice(w) ==
    Emit(Emit(w, "cache-change", "query-sync", SyncMessage(w)),
         "cache-change", "query-sync", SyncMessage(w))

\* The queryCache.subscribe callback: dehydrate and emit, once per call
OnCacheChange(w) ==
    Emit(w, "cache-change", "query-sync", SyncMessage(w))

RECURSIVE callListeners(_, _)
callListeners(w, n) ==
    IF n = 0 THEN w ELSE callListeners(OnCacheChange(w), n - 1)

\* QueryCache.notify(event): every listener is called synchronously
\* (history: while connected, the sync message due for this change)
notify(w) ==
    callListeners(IF isConnected
                  THEN [w EXCEPT !.changeLog = Append(@, SyncMessage(w))]
                  ELSE w,
                  cacheListeners)

\* Query.setState / Query dispatch: replace the state, then notify
setState(w, i, q) == notify([w EXCEPT !.queries[i] = q])

\* A variant in which fetch() starts nothing
queryFetchNothing(w, i, opts, cancelRefetch) == w

\* Query.fetch(options, {cancelRefetch}).  opts: "keep" (no options passed),
\* "orig" (the application's options) or "forced" (a queryFn that never settles)
queryFetch(w, i, opts, cancelRefetch) ==
    LET q == w.queries[i]
        busy == q.fetchStatus # "idle"
        cancels == q.data # NoData /\ cancelRefetch
    IN  IF busy /\ ~cancels /\ q.retryer # "none"
        THEN w      \* the running fetch's promise is returned
        ELSE LET forced == IF opts = "keep" THEN q.forcedFn ELSE opts = "forced"
             IN  setState(w, i,
                     [q EXCEPT !.forcedFn = forced,
                               !.fetchStatus = IF w.online THEN "fetching" ELSE "paused",
                               !.stash = "none",
                               !.status = IF q.data = NoData THEN "pending" ELSE @,
                               !.retryer = IF forced THEN "forced" ELSE "normal"])

\* Query.reset(): destroy() cancels silently, then setState(initialState);
\* the options of the query are kept
queryReset(w, i) ==
    LET q == w.queries[i]
    IN  setState(w, i,
            [q EXCEPT !.status = "pending", !.data = NoData,
                      !.fetchStatus = "idle", !.stash = "none",
                      !.retryer = "none", !.invalidated = FALSE])

\* Query.invalidate(): dispatches only when not yet invalidated
queryInvalidate(w, i) ==
    LET q == w.queries[i]
    IN  IF q.invalidated THEN w
        ELSE setState(w, i, [q EXCEPT !.invalidated = TRUE])

\* queryClient.refetchQueries({type: 'active', ...filters}): cancelRefetch true
RECURSIVE refetchQueries(_, _, _)
refetchQueries(w, filterKey, i) ==
    IF i > Len(w.queries) THEN w
    ELSE refetchQueries(
             IF matchQuery(filterKey, w.queries[i].key) /\ w.queries[i].active
             THEN queryFetch(w, i, "keep", TRUE) ELSE w,
             filterKey, i + 1)

RECURSIVE resetMatching(_, _, _)
resetMatching(w, filterKey, i) ==
    IF i > Len(w.queries) THEN w
    ELSE resetMatching(
             IF matchQuery(filterKey, w.queries[i].key)
             THEN queryReset(w, i) ELSE w,
             filterKey, i + 1)

\* queryClient.resetQueries(filters)
resetQueries(w, filterKey) ==
    refetchQueries(resetMatching(w, filterKey, 1), filterKey, 1)

RECURSIVE invalidateMatching(_, _, _)
invalidateMatching(w, filterKey, i) ==
    IF i > Len(w.queries) THEN w
    ELSE invalidateMatching(
             IF matchQuery(filterKey, w.queries[i].key)
             THEN queryInvalidate(w, i) ELSE w,
             filterKey, i + 1)

\* queryClient.invalidateQueries(filters)
invalidateQueries(w, filterKey) ==
    refetchQueries(invalidateMatching(w, filterKey, 1), filterKey, 1)

\* queryCache.remove(query): the record leaves the cache, listeners are told
cacheRemove(w, i) == notify([w EXCEPT !.queries = removeAt(@, i)])

\* queryClient.removeQueries(filters): every matching query, in cache order
RECURSIVE removeQueries(_, _, _)
removeQueries(w, filterKey, i) ==
    IF i > Len(w.queries) THEN w
    ELSE IF matchQuery(filterKey, w.queries[i].key)
         THEN removeQueries(cacheRemove(w, i), filterKey, i)
         ELSE removeQueries(w, filterKey, i + 1)

\* A variant that removes the first query only
queryCacheClearFirst(w) ==
    IF Len(w.queries) = 0 THEN w ELSE cacheRemove(w, 1)

\* queryCache.clear(): removes each query in turn
RECURSIVE queryCacheClear(_)
queryCacheClear(w) ==
    IF Len(w.queries) = 0 THEN w ELSE queryCacheClear(cacheRemove(w, 1))

\* mutationCache.clear(): only mutation cache listeners are told
mutationCacheClear(w) == [w EXCEPT !.mutations = <<>>]

\* queryCache.build(): the query of that key, created (and announced) if absent
cacheBuild(w, k) ==
    IF queryIndex(w.queries, hashKey(k)) # 0 THEN w
    ELSE notify([w EXCEPT !.queries = Append(@, initialQuery(k))])

\* queryClient.setQueryData(queryKey, data): undefined data changes nothing;
\* otherwise the query of that KEY is built and given the data (manual)
setQueryData(w, k, d) ==
    IF d = NoData THEN w
    ELSE LET w1 == cacheBuild(w, k)
             i == queryIndex(w1.queries, hashKey(k))
         IN  setState(w1, i,
                 [w1.queries[i] EXCEPT !.data = d, !.status = "success",
                                       !.invalidated = FALSE])

\* A variant that leaves the flag alone
setOnlineIgnored(w, v) == w

\* onlineManager.setOnline(value): the flag; the query cache is not notified
setOnline(w, v) == [w EXCEPT !.online = v]


--------------------------------------------------------------------------
(* Inbound messages *)

\* queryKey and data are read by ACTION-DATA-UPDATE alone
MessagesFor(hashes, keys, actions) ==
    [queryHash : hashes, queryKey : {<<1>>}, data : {NoData},
     action : actions \ {"ACTION-DATA-UPDATE"}, targetDeviceId : Targets]
    \cup
    [queryHash : hashes, queryKey : keys, data : Data \cup {NoData},
     action : actions \cap {"ACTION-DATA-UPDATE"}, targetDeviceId : Targets]

QueryActionMessages == MessagesFor(Hashes \cup {UnknownHash}, Keys, QueryActions)

\* every action, aimed at the query of key <<1>> or at no cached query
OneQueryMessages ==
    MessagesFor({hashKey(<<1>>), UnknownHash}, {<<1>>}, QueryActions)

\* the actions that add no forced state to a query, aimed at any query
CacheActions == {"ACTION-REMOVE", "ACTION-REFETCH", "ACTION-RESET",
                 "ACTION-RESTORE-ERROR", "ACTION-CLEAR-QUERY-CACHE",
                 "ACTION-CLEAR-MUTATION-CACHE", "ACTION-ONLINE-MANAGER-ONLINE",
                 "ACTION-ONLINE-MANAGER-OFFLINE", "success"}

CacheMessages == MessagesFor(Hashes \cup {UnknownHash}, Keys, CacheActions)

OnlineManagerMessages == [action : OnlineActions, targetDeviceId : Targets]

--------------------------------------------------------------------------
(* Sync coordinator: the handlers installed by the effect *)

\* activeQuery.options as stashed in fetchMeta.__previousQueryOptions
optionsOf(q) == IF q.forcedFn THEN "forced" ELSE "orig"

\* variant: a reply that reports the device online whatever the flag
OnRequestInitialStateNoFlag(w) ==
    Emit(w, "initial-state", "query-sync",
         [SyncMessage(w) EXCEPT !.isOnlineManagerOnline = TRUE])

\* socket.on("request-initial-state")
OnRequestInitialState(w) ==
    Emit(w, "initial-state", "query-sync", SyncMessage(w))

\* socket.on("online-manager")
OnOnlineManager(w, m) ==
    IF ~shouldProcessMessage(m.targetDeviceId, deviceId) THEN w
    ELSE CASE m.action = "ACTION-ONLINE-MANAGER-ONLINE" -> setOnline(w, TRUE)
           [] m.action = "ACTION-ONLINE-MANAGER-OFFLINE" -> setOnline(w, FALSE)
           [] OTHER -> w

actionTriggerError(w, i) ==
    LET q == w.queries[i]
    IN  setState(w, i, [q EXCEPT !.status = "error", !.stash = optionsOf(q)])

actionTriggerLoading(w, i) ==
    LET previousQueryOptions == optionsOf(w.queries[i])
        w1 == queryFetch(w, i, "forced", FALSE)
    IN  setState(w1, i,
            [w1.queries[i] EXCEPT !.data = NoData, !.status = "pending",
                                  !.stash = previousQueryOptions])

\* A variant that restores without looking for stashed options
actionRestoreLoadingOnly(w, i) ==
    setState(w, i, [w.queries[i] EXCEPT !.fetchStatus = "idle",
                                        !.stash = "none", !.retryer = "none"])

actionRestoreLoading(w, i) ==
    LET previousState == w.queries[i]
        previousOptions == previousState.stash
        \* cancel({silent: true}): the fetch is dropped, no state is dispatched
        w1 == setState(w, i,
                  [previousState EXCEPT !.fetchStatus = "idle", !.stash = "none",
                                        !.retryer = "none"])
    IN  IF previousOptions # "none"
        THEN queryFetch(w1, i, previousOptions, FALSE)
        ELSE w1

\* A variant whose switch refetches on an action it does not list
OnQueryActionDefaultRefetch(w, m) ==
    IF ~shouldProcessMessage(m.targetDeviceId, deviceId) THEN w
    ELSE IF queryIndex(w.queries, m.queryHash) = 0 THEN w
    ELSE queryFetch(w, queryIndex(w.queries, m.queryHash), "keep", FALSE)

\* socket.on("query-action")
OnQueryAction(w, m) ==
    IF ~shouldProcessMessage(m.targetDeviceId, deviceId) THEN w
    ELSE IF m.action = "ACTION-CLEAR-MUTATION-CACHE" THEN mutationCacheClear(w)
    ELSE IF m.action = "ACTION-CLEAR-QUERY-CACHE" THEN queryCacheClear(w)
    ELSE LET i == queryIndex(w.queries, m.queryHash)
         IN  IF i = 0 THEN w
             ELSE CASE m.action = "ACTION-DATA-UPDATE" ->
                           setQueryData(w, m.queryKey, m.data)
                    [] m.action = "ACTION-TRIGGER-ERROR" -> actionTriggerError(w, i)
                    [] m.action = "ACTION-RESTORE-ERROR" ->
                           resetQueries(w, w.queries[i].key)
                    [] m.action = "ACTION-TRIGGER-LOADING" -> actionTriggerLoading(w, i)
                    [] m.action = "ACTION-RESTORE-LOADING" -> actionRestoreLoading(w, i)
                    [] m.action = "ACTION-RESET" -> resetQueries(w, w.queries[i].key)
                    [] m.action = "ACTION-REMOVE" ->
                           removeQueries(w, w.queries[i].key, 1)
                    [] m.action = "ACTION-REFETCH" -> queryFetch(w, i, "keep", FALSE)
                    [] m.action = "ACTION-INVALIDATE" ->
                           invalidateQueries(w, w.queries[i].key)
                    [] m.action = "ACTION-ONLINE-MANAGER-ONLINE" -> setOnline(w, TRUE)
                    [] m.action = "ACTION-ONLINE-MANAGER-OFFLINE" -> setOnline(w, FALSE)
                    [] OTHER -> w

\* history: the channel of the latest message and the device it names
Delivered(chan, target) == [chan |-> chan, target |-> target]

\* history: an event that is no targeted message
Happened(name) == [chan |-> name, target |-> "-"]

\* history: the message as well, in behaviours that record messages
DeliveredMessage(chan, m) ==
    IF "messages" \in tracking
    THEN [chan |-> chan, target |-> m.targetDeviceId, message |-> m]
    ELSE Delivered(chan, m.targetDeviceId)

--------------------------------------------------------------------------
(* Storage: sendAsyncStorageState and the two storage handlers *)

Undefined == "undefined"
Absent == "null"
StoreKeys == {"k1", "k2"}
KeyOrder == <<"k1", "k2">>
StoreValues == {"v1"}
StorageActions == {"GET_ALL_KEYS", "GET_ITEM", "SET_ITEM", "REMOVE_ITEM",
                   "CLEAR_ALL"}
EmptyStore == [k \in StoreKeys |-> Absent]

AsyncStorageActionMessages(keys, actions) ==
    [action : actions, targetDeviceId : Targets,
     key : keys \cup {Undefined}, value : StoreValues \cup {Undefined}]

AsyncStorageRequestMessages == [targetDeviceId : Targets]

\* a JavaScript string in a condition: undefined and "" are falsy
truthy(x) == x \notin {Undefined, Absent, ""}

\* value || ''
orEmpty(v) == IF truthy(v) THEN v ELSE ""

\* asyncStorage.getAllKeys()
getAllKeys(st) == SelectSeq(KeyOrder, LAMBDA k : st[k] # Absent)

\* a handler run suspended at an await: pc names the awaited call
storageTask(m, pc) ==
    [action |-> m.action, key |-> m.key, value |-> m.value,
     pc |-> pc, keys |-> <<>>, items |-> <<>>]

AsyncStorageSyncMessage(items) ==
    [type |-> "async-storage-state",
     state |-> [items |-> items],
     persistentDeviceId |-> deviceId]

\* what a handler did before returning or suspending:
\* the runs it suspended and the messages it emitted
Did(tasks, em) == [tasks |-> tasks, emitted |-> em]

Sent(site, event, payload) == <<[site |-> site, event |-> event, msg |-> payload]>>

\* A variant that hands nothing over to the application
OnAsyncStorageActionSilent(m) == Did(<<>>, <<>>)

\* socket.on("async-storage-action"), up to its first await
OnAsyncStorageAction(m) ==
    IF ~shouldProcessMessage(m.targetDeviceId, deviceId) THEN Did(<<>>, <<>>)
    ELSE IF asyncStorage
    THEN CASE m.action = "GET_ALL_KEYS" ->
                  Did(<<storageTask(m, "getAllKeys")>>, <<>>)
           [] m.action = "GET_ITEM" /\ truthy(m.key) ->
                  Did(<<storageTask(m, "op")>>, <<>>)
           [] m.action = "SET_ITEM" /\ truthy(m.key) /\ m.value # Undefined ->
                  Did(<<storageTask(m, "op")>>, <<>>)
           [] m.action = "REMOVE_ITEM" /\ truthy(m.key) ->
                  Did(<<storageTask(m, "op")>>, <<>>)
           [] m.action = "CLEAR_ALL" ->
                  Did(<<storageTask(m, "op")>>, <<>>)
           [] OTHER -> Did(<<>>, <<>>)
    ELSE Did(<<>>, Sent("storage", "async-storage-action-received", m))

\* socket.on("request-async-storage"), up to its first await
OnRequestAsyncStorage(m) ==
    IF ~shouldProcessMessage(m.targetDeviceId, deviceId) THEN Did(<<>>, <<>>)
    ELSE IF asyncStorage
    THEN Did(<<[action |-> "REQUEST", key |-> Undefined, value |-> Undefined,
                pc |-> "getAllKeys", keys |-> <<>>, items |-> <<>>]>>, <<>>)
    ELSE Did(<<>>, Sent("storage", "request-async-storage-received",
                        [type |-> "request-async-storage"]))

\* the awaited setItem / removeItem / clear / getItem of the handler completes
applyStorageOp(st, t) ==
    CASE t.action = "SET_ITEM" -> [st EXCEPT ![t.key] = t.value]
      [] t.action = "REMOVE_ITEM" -> [st EXCEPT ![t.key] = Absent]
      [] t.action = "CLEAR_ALL" -> EmptyStore
      [] OTHER -> st

\* A variant whose catch block reports the items read so far
rejectStorageReports(st, t) ==
    [store |-> st, tasks |-> <<>>,
     emitted |-> Sent("storage", "async-storage-sync",
                      AsyncStorageSyncMessage(t.items))]

\* One awaited storage call of run t rejects: the catch block of the run
\* logs the error, and the run ends with the store as it was
rejectStorage(st, t) == [store |-> st, tasks |-> <<>>, emitted |-> <<>>]

\* One awaited storage call of run t completes successfully: the store after
\* it, the run if it suspends again (else <<>>), and what it emitted
resumeStorage(st, t) ==
    CASE t.pc = "op" ->
            [store |-> applyStorageOp(st, t),
             tasks |-> <<[t EXCEPT !.pc = "getAllKeys"]>>,
             emitted |-> <<>>]
      [] t.pc = "getAllKeys" ->
            IF getAllKeys(st) = <<>>
            THEN [store |-> st, tasks |-> <<>>,
                  emitted |-> Sent("storage", "async-storage-sync",
                                   AsyncStorageSyncMessage(<<>>))]
            ELSE [store |-> st,
                  tasks |-> <<[t EXCEPT !.pc = "getItem", !.keys = getAllKeys(st)]>>,
                  emitted |-> <<>>]
      [] OTHER ->
            LET items == Append(t.items, [key |-> Head(t.keys),
                                          value |-> orEmpty(st[Head(t.keys)])])
            IN  IF Tail(t.keys) = <<>>
                THEN [store |-> st, tasks |-> <<>>,
                      emitted |-> Sent("storage", "async-storage-sync",
                                       AsyncStorageSyncMessage(items))]
                ELSE [store |-> st,
                      tasks |-> <<[t EXCEPT !.keys = Tail(@), !.items = items]>>,
                      emitted |-> <<>>]

--------------------------------------------------------------------------
(* Network monitoring: the interceptor slots and their taps *)

Kinds == {"fetch", "xhr", "websocket"}
NetworkActions == {"ACTION-ENABLE-NETWORK-MONITORING",
                   "ACTION-DISABLE-NETWORK-MONITORING"}
NetworkActionMessages == [action : NetworkActions, targetDeviceId : Targets]
NetworkRequestMessages == [targetDeviceId : Targets]

Net == [slots |-> slots, taps |-> taps]

\* setup<Kind>Interceptor(socket, deviceId, enableLogs) installs one tap of
\* the kind and returns its disposer; calling the disposer removes that tap
setupInterceptor(installed) == installed + 1
removeInterceptor(installed) == installed - 1

\* A variant that installs every kind, configured or not
installEveryKind(n) ==
    [slots |-> [k \in Kinds |-> TRUE],
     taps |-> [k \in Kinds |-> setupInterceptor(n.taps[k])]]

\* the effect stores the disposer of each configured kind in the kind's slot
installConfigured(n) ==
    [slots |-> [k \in Kinds |-> n.slots[k] \/ k \in networkMonitoring],
     taps |-> [k \in Kinds |-> IF k \in networkMonitoring
                               THEN setupInterceptor(n.taps[k])
                               ELSE n.taps[k]]]

\* A variant that installs without looking at the slot
enableMonitoringAlways(n) ==
    [slots |-> [k \in Kinds |-> TRUE],
     taps |-> [k \in Kinds |-> setupInterceptor(n.taps[k])]]

\* each kind whose slot is empty gets a tap
enableMonitoring(n) ==
    [slots |-> [k \in Kinds |-> TRUE],
     taps |-> [k \in Kinds |-> IF n.slots[k] THEN n.taps[k]
                               ELSE setupInterceptor(n.taps[k])]]

\* A variant that empties the slots without calling the disposers
disableMonitoringForgets(n) ==
    [slots |-> [k \in Kinds |-> FALSE], taps |-> n.taps]

\* each held disposer is called and its slot emptied
disableMonitoring(n) ==
    [slots |-> [k \in Kinds |-> FALSE],
     taps |-> [k \in Kinds |-> IF n.slots[k] THEN removeInterceptor(n.taps[k])
                               ELSE n.taps[k]]]

\* socket.on("network-monitoring-action")
OnNetworkMonitoringAction(n, m) ==
    IF ~shouldProcessMessage(m.targetDeviceId, deviceId) THEN n
    ELSE CASE m.action = "ACTION-ENABLE-NETWORK-MONITORING" -> enableMonitoring(n)
           [] m.action = "ACTION-DISABLE-NETWORK-MONITORING" -> disableMonitoring(n)
           [] OTHER -> n

\* socket.on("request-network-monitoring"): the request is only logged
OnRequestNetworkMonitoring(n, m) == n

--------------------------------------------------------------------------
(* Remote commands: executeExpoCommand and the implementation registry *)

CommandTypes == {"reload", "toggle-inspector", "toggle-performance-monitor",
                 "toggle-element-inspector", "clear-cache",
                 "toggle-remote-debugging", "open-dev-menu", "take-screenshot",
                 "shake-device"}
UnknownType == "restart"
CommandIds == {"c1", "c2"}

\* the keys of the object passed to setExpoCommandImplementations
ImplementationKeys ==
    [reload |-> "reload", toggleInspector |-> "toggle-inspector",
     togglePerformanceMonitor |-> "toggle-performance-monitor",
     toggleElementInspector |-> "toggle-element-inspector",
     clearCache |-> "clear-cache",
     toggleRemoteDebugging |-> "toggle-remote-debugging",
     openDevMenu |-> "open-dev-menu", takeScreenshot |-> "take-screenshot",
     shakeDevice |-> "shake-device"]

ExpoCommandActionMessages(types, ids) ==
    [command : types, commandId : ids, targetDeviceId : Targets]

ExpoDevToolsRequestMessages == [targetDeviceId : Targets]

\* what an implementation can throw or reject with
ThrownValues == {[kind |-> "Error", message |-> "boom"],
                 [kind |-> "Error", message |-> ""],
                 [kind |-> "string", text |-> "oops"],
                 [kind |-> "undefined", text |-> "undefined"]}
Resolved == [kind |-> "resolved"]
\* history: no implementation has settled for the call
Unsettled == [kind |-> "pending"]

\* String(error)
String(e) ==
    IF e.kind = "Error"
    THEN IF e.message = "" THEN "Error" ELSE "Error: " \o e.message
    ELSE e.text

\* variant: the string form whatever was thrown
errorTextAsString(e) == String(e)

\* error instanceof Error ? error.message : String(error)
errorText(e) == IF e.kind = "Error" THEN e.message ELSE String(e)

\* A variant whose default implementations let an exception escape
outcomesOfUncaught(impl) == {Resolved} \cup ThrownValues

\* how an invoked implementation can settle: a default implementation catches
\* whatever its body raises, a replacement is the application's function
\* ("fnA" may resolve or throw, "fnB" is a function that only resolves)
outcomesOf(impl) ==
    IF impl = "fnA" THEN {Resolved} \cup ThrownValues ELSE {Resolved}

\* variant: a result that keeps the status of the command passed in
pendingResult(command, dev) ==
    [type |-> "expo-command-result", command |-> command,
     persistentDeviceId |-> dev]

\* the message of the success branch: {...command, status: 'success'}
successResult(command, dev) ==
    [type |-> "expo-command-result",
     command |-> [command EXCEPT !.status = "success"],
     persistentDeviceId |-> dev]

\* the message of the catch branch: {...command, status: 'error', error}
errorResult(command, dev, text) ==
    [type |-> "expo-command-result",
     command |-> [id |-> command.id, type |-> command.type, status |-> "error",
                  deviceId |-> command.deviceId, error |-> text],
     persistentDeviceId |-> dev]

\* the message emitted once the awaited implementation has settled with o
resultOf(command, dev, o) ==
    IF o = Resolved THEN successResult(command, dev)
    ELSE errorResult(command, dev, errorText(o))

\* The native APIs the default implementations look for
Capabilities ==
    {"__expo.reload", "__expo.openDevMenu",
     "DevSettings.reload", "DevSettings.toggleElementInspector",
     "DevSettings.togglePerformanceMonitor",
     "DevSettings.setIsDebuggingRemotely", "DevSettings.show",
     "AsyncStorage.clear",
     "DevMenu.reload", "DevMenu.toggleElementInspector",
     "DevMenu.togglePerformanceMonitor", "DevMenu.toggleRemoteDebugging",
     "DevMenu.show", "ImageLoader.clearCache", "RNScreenshot.takeScreenshot"}

\* a capability is absent, or present and its call returns, or present and
\* its call throws (for an awaited call: its promise rejects)
Presence == {"absent", "works", "throws"}

\* a runtime that exposes nothing: no global.require, no global.__expo
NoRuntime == [require |-> FALSE, works |-> {}, throws |-> {}]

\* how a runtime holds one API: the APIs whose call returns and those whose
\* call throws are listed, every other one is absent
presence(rt, c) ==
    IF c \in rt.works THEN "works"
    ELSE IF c \in rt.throws THEN "throws"
    ELSE "absent"

\* One step of a default chain: the API it calls, the properties its `if`
\* tests, where the API lives, and whether an inner try/catch surrounds it
Probe(layer, call, needs, guarded) ==
    [layer |-> layer, call |-> call, needs |-> needs, guarded |-> guarded]

ViaExpo(call) == Probe("Expo", call, {call}, FALSE)
ViaDevSettings(call) == Probe("DevSettings", call, {call}, TRUE)
ViaModule(call) == Probe("Module", call, {call}, TRUE)
ViaNativeModules(call) == Probe("NativeModules", call, {call}, TRUE)

\* The bodies of the nine default implementations, as their probes in order
defaultChain ==
    [t \in CommandTypes |->
       CASE t = "reload" ->
              <<ViaExpo("__expo.reload"), ViaDevSettings("DevSettings.reload"),
                ViaNativeModules("DevMenu.reload")>>
         [] t = "toggle-inspector" ->
              <<ViaDevSettings("DevSettings.toggleElementInspector"),
                ViaNativeModules("DevMenu.toggleElementInspector")>>
         [] t = "toggle-performance-monitor" ->
              <<ViaDevSettings("DevSettings.togglePerformanceMonitor"),
                ViaNativeModules("DevMenu.togglePerformanceMonitor")>>
         [] t = "toggle-element-inspector" ->
              <<ViaDevSettings("DevSettings.toggleElementInspector"),
                ViaNativeModules("DevMenu.toggleElementInspector")>>
         [] t = "clear-cache" ->
              <<ViaModule("AsyncStorage.clear"),
                ViaNativeModules("ImageLoader.clearCache")>>
         [] t = "toggle-remote-debugging" ->
              <<ViaDevSettings("DevSettings.setIsDebuggingRemotely"),
                ViaNativeModules("DevMenu.toggleRemoteDebugging")>>
         [] t = "open-dev-menu" ->
              <<ViaExpo("__expo.openDevMenu"), ViaNativeModules("DevMenu.show")>>
         [] t = "take-screenshot" ->
              <<ViaNativeModules("RNScreenshot.takeScreenshot")>>
         [] t = "shake-device" ->
              <<Probe("DevSettings", "DevSettings.show",
                      {"DevSettings.reload", "DevSettings.show"}, TRUE),
                ViaNativeModules("DevMenu.show")>>]

\* A variant that takes every API for present
availableAlways(probe, rt) == TRUE

\* the condition of a probe's `if`: global.__expo for the Expo API,
\* global.require for everything that is required, then the properties
available(probe, rt) ==
    /\ probe.layer = "Expo" \/ rt.require
    /\ \A c \in probe.needs : presence(rt, c) # "absent"

\* A variant that keeps probing after a call has returned
RECURSIVE runEveryProbe(_, _, _)
runEveryProbe(chain, rt, i) ==
    IF i > Len(chain) THEN <<>>
    ELSE IF ~available(chain[i], rt) THEN runEveryProbe(chain, rt, i + 1)
    ELSE <<[api |-> chain[i].call, result |-> presence(rt, chain[i].call)]>>
         \o runEveryProbe(chain, rt, i + 1)

\* Running a chain from probe i on: the native calls made, in order. A call
\* that returns ends the chain; a call that throws inside an inner try/catch
\* is swallowed and the next probe runs; a call that throws outside one
\* reaches the outer catch, which ends the chain
RECURSIVE runChain(_, _, _)
runChain(chain, rt, i) ==
    IF i > Len(chain) THEN <<>>
    ELSE IF ~available(chain[i], rt) THEN runChain(chain, rt, i + 1)
    ELSE LET made == <<[api |-> chain[i].call,
                        result |-> presence(rt, chain[i].call)]>>
         IN  IF presence(rt, chain[i].call) = "throws" /\ chain[i].guarded
             THEN made \o runChain(chain, rt, i + 1)
             ELSE made

\* the native calls one invocation of an implementation makes
nativeCalls(impl, type) ==
    IF impl = "default" THEN runChain(defaultChain[type], runtime, 1) ELSE <<>>

\* variant: a switch whose default branch runs the reload implementation
executeUnknownAsReload(command, dev) ==
    [command |-> command, dev |-> dev, invoked |-> implementations["reload"],
     natives |-> nativeCalls(implementations["reload"], "reload"),
     results |-> <<>>, promise |-> "pending", outcome |-> Unsettled]

\* A variant whose switch stays bound to the implementations it started with
executeBoundToDefaults(command, dev) ==
    IF command.type \in CommandTypes
    THEN [command |-> command, dev |-> dev, invoked |-> "default",
          natives |-> nativeCalls("default", command.type),
          results |-> <<>>, promise |-> "pending", outcome |-> Unsettled]
    ELSE [command |-> command, dev |-> dev, invoked |-> "none",
          natives |-> <<>>,
          results |-> <<errorResult(command, dev,
                          "Unknown command type: " \o command.type)>>,
          promise |-> "resolved", outcome |-> Unsettled]

\* A variant that reports success without awaiting the implementation
executeWithoutAwait(command, dev) ==
    [command |-> command, dev |-> dev, invoked |-> "none", natives |-> <<>>,
     results |-> <<successResult(command, dev)>>,
     promise |-> "resolved", outcome |-> Unsettled]

\* executeExpoCommand up to its first await: the call as recorded (what was
\* invoked and which native calls that made, what was emitted, the state of
\* the returned promise)
executeExpoCommand(command, dev) ==
    IF command.type \in CommandTypes
    THEN [command |-> command, dev |-> dev,
          invoked |-> implementations[command.type],
          natives |-> nativeCalls(implementations[command.type], command.type),
          results |-> <<>>, promise |-> "pending", outcome |-> Unsettled]
    ELSE [command |-> command, dev |-> dev, invoked |-> "none",
          natives |-> <<>>,
          results |-> <<errorResult(command, dev,
                          "Unknown command type: " \o command.type)>>,
          promise |-> "resolved", outcome |-> Unsettled]

\* socket.on("expo-command-action"): the calls of executeExpoCommand it makes
OnExpoCommandAction(m) ==
    IF ~shouldProcessMessage(m.targetDeviceId, deviceId) THEN <<>>
    ELSE <<executeExpoCommand([id |-> m.commandId, type |-> m.command,
                               status |-> "pending",
                               deviceId |-> m.targetDeviceId],
                              deviceId)>>

sentResults(rs) ==
    [i \in 1..Len(rs) |->
        [site |-> "command", event |-> "expo-command-result", msg |-> rs[i]]]

\* A variant that leaves the request unanswered
OnRequestExpoDevToolsStatusSilent(m) == <<>>

\* socket.on("request-expo-devtools-status")
OnRequestExpoDevToolsStatus(m) ==
    IF ~shouldProcessMessage(m.targetDeviceId, deviceId) THEN <<>>
    ELSE Sent("devtools-status", "expo-command-result",
              [type |-> "expo-command-result",
               command |-> [id |-> "status-check", type |-> "reload",
                            status |-> "success", deviceId |-> m.targetDeviceId,
                            result |-> [expoDevToolsAvailable |-> TRUE]],
               persistentDeviceId |-> deviceId])

\* The functions an application can supply as implementations
Functions == {"fnA", "fnB"}

\* The objects passed to setExpoCommandImplementations: every key optional
Partial(keys) ==
    UNION {[ks -> Functions] : ks \in SUBSET keys}

\* A variant that rebuilds the registry from the supplied object alone
setExpoCommandImplementationsAll(reg, given) ==
    [t \in CommandTypes |->
        IF \E k \in DOMAIN given : ImplementationKeys[k] = t
        THEN given[CHOOSE k \in DOMAIN given : ImplementationKeys[k] = t]
        ELSE "default"]

\* setExpoCommandImplementations(given): `if (implementations.X) executeX =
\* implementations.X` for each of the nine keys; other entries are kept
setExpoCommandImplementations(reg, given) ==
    [t \in CommandTypes |->
        IF \E k \in DOMAIN given : ImplementationKeys[k] = t
        THEN given[CHOOSE k \in DOMAIN given : ImplementationKeys[k] = t]
        ELSE reg[t]]

\* The nine single setters and the variable each one assigns
Setters ==
    [setReloadImplementation              |-> "reload",
     setToggleInspectorImplementation     |-> "toggle-inspector",
     setTogglePerformanceMonitorImplementation |-> "toggle-performance-monitor",
     setToggleElementInspectorImplementation   |-> "toggle-element-inspector",
     setClearCacheImplementation          |-> "clear-cache",
     setToggleRemoteDebuggingImplementation    |-> "toggle-remote-debugging",
     setOpenDevMenuImplementation         |-> "open-dev-menu",
     setTakeScreenshotImplementation      |-> "take-screenshot",
     setShakeDeviceImplementation         |-> "shake-device"]

\* setXImplementation(implementation): `executeX = implementation`
setImplementation(reg, setter, implementation) ==
    [reg EXCEPT ![Setters[setter]] = implementation]

--------------------------------------------------------------------------
(* Lifecycle: the effect body and its cleanup *)

\* deviceId?.trim(): the text without its leading and trailing whitespace
Whitespace == {" ", "\t"}
Characters == Whitespace \cup {"a"}
\* no text at all: deviceId is undefined (or null)
Missing == <<"undefined">>

\* variant: the text as it is
trimNothing(text) == text

RECURSIVE trimStart(_)
trimStart(text) ==
    IF text # <<>> /\ Head(text) \in Whitespace THEN trimStart(Tail(text))
    ELSE text

RECURSIVE trimEnd(_)
trimEnd(text) ==
    IF text # <<>> /\ text[Len(text)] \in Whitespace
    THEN trimEnd(SubSeq(text, 1, Len(text) - 1))
    ELSE text

trim(text) == trimEnd(trimStart(text))

\* `if (!deviceId?.trim()) throw`: undefined and the empty string are falsy
validDeviceId(text) == text # Missing /\ trim(text) # <<>>

\* The first call of the hook: the validation throws, or useMySocket, the
\* refs and the effect are set up (the effect body waits for isConnected)
Render ==
    /\ hook = "none"
    /\ hook' = IF validDeviceId(deviceIdText) THEN "mounted" ELSE "threw"
    /\ lastEvent' = Happened("render")
    /\ emitted' = <<>>
    /\ changeLog' = <<>>
    /\ UNCHANGED <<queries, mutations, online, mirror, tracking,
                   isConnected, handlers, cacheListeners, routeVars, sideVars>>

\* isConnected became true: the effect installs every handler at once
Connect ==
    /\ hook = "mounted"
    /\ ~isConnected
    /\ isConnected' = TRUE
    /\ handlers' = [c \in Channels |-> handlers[c] + 1]
    /\ cacheListeners' = cacheListeners + 1
    /\ emitted' = <<>>
    /\ changeLog' = <<>>
    /\ mirror' = NoSync
    /\ slots' = installConfigured(Net).slots
    /\ taps' = installConfigured(Net).taps
    /\ lastEvent' = Happened("connect")
    /\ UNCHANGED <<queries, mutations, online, routeVars, tracking, hook,
                   cfgVars, storeVars, cmdVars>>

\* The statements of the effect's cleanup, in order
Off(channel) == [kind |-> "off", of |-> channel]
Dispose(kind) == [kind |-> "dispose", of |-> kind]

CleanupSteps ==
    <<Off("query-action"), Off("request-initial-state"), Off("online-manager"),
      Off("async-storage-action"), Off("request-async-storage"),
      Off("network-monitoring-action"), Off("request-network-monitoring"),
      Off("expo-command-action"), Off("request-expo-devtools-status"),
      Dispose("fetch"), Dispose("xhr"), Dispose("websocket"),
      [kind |-> "unsubscribe", of |-> "-"]>>

Installed ==
    [handlers |-> handlers, cacheListeners |-> cacheListeners,
     slots |-> slots, taps |-> taps, threw |-> FALSE]

\* A variant whose statements remove nothing
cleanupStepKeeps(st, step) == st

\* one statement of the cleanup that completes
cleanupStep(st, step) ==
    CASE step.kind = "off" ->
           [st EXCEPT !.handlers[step.of] = @ - 1]
      [] step.kind = "dispose" ->
           [st EXCEPT !.taps[step.of] = removeInterceptor(@),
                      !.slots[step.of] = FALSE]
      [] step.kind = "unsubscribe" ->
           [st EXCEPT !.cacheListeners = @ - 1]

\* The cleanup from statement i on, where the call made by statement
\* `thrower` (0: none) throws: a disposer is called only when its slot holds
\* one; nothing surrounds the calls, so a throw leaves the cleanup at once
RECURSIVE cleanup(_, _, _)
cleanup(st, i, thrower) ==
    IF i > Len(CleanupSteps) THEN st
    ELSE IF CleanupSteps[i].kind = "dispose" /\ ~st.slots[CleanupSteps[i].of]
    THEN cleanup(st, i + 1, thrower)
    ELSE IF i = thrower THEN [st EXCEPT !.threw = TRUE]
    ELSE cleanup(cleanupStep(st, CleanupSteps[i]), i + 1, thrower)

\* isConnected became false: the cleanup of the effect runs; an exception
\* that leaves the cleanup takes the component down
Teardown(throwers) ==
    /\ isConnected
    /\ \E thrower \in throwers :
          LET after == cleanup(Installed, 1, thrower)
          IN  /\ handlers' = after.handlers
              /\ cacheListeners' = after.cacheListeners
              /\ slots' = after.slots
              /\ taps' = after.taps
              /\ hook' = IF after.threw THEN "crashed" ELSE hook
              /\ lastEvent' = IF after.threw
                              THEN [chan |-> "disconnect", target |-> "-",
                                    threw |-> CleanupSteps[thrower]]
                              ELSE Happened("disconnect")
    /\ isConnected' = FALSE
    /\ emitted' = <<>>
    /\ changeLog' = <<>>
    /\ mirror' = NoSync
    /\ UNCHANGED <<queries, mutations, online, routeVars, tracking,
                   cfgVars, storeVars, cmdVars>>

\* the cleanup when no call throws
Disconnect == Teardown({0})

--------------------------------------------------------------------------
(* Events *)

DeliverRequestInitialState ==
    /\ handlers["request-initial-state"] > 0
    /\ Commit(OnRequestInitialState(World))
    /\ lastEvent' = Happened("request-initial-state")
    /\ UNCHANGED <<lifeVars, routeVars, sideVars>>

DeliverOnlineManager ==
    /\ handlers["online-manager"] > 0
    /\ \E m \in OnlineManagerMessages :
          /\ Commit(OnOnlineManager(World, m))
          /\ lastEvent' = DeliveredMessage("online-manager", m)
    /\ UNCHANGED <<lifeVars, routeVars, sideVars>>

\* history: a loading action that reached an existing query, with the
\* status and data the query had when the message arrived
LoadingActions == {"ACTION-TRIGGER-LOADING", "ACTION-RESTORE-LOADING"}

DeliveredQueryAction(w, m) ==
    LET i == queryIndex(w.queries, m.queryHash)
    IN  IF /\ m.action \in LoadingActions
           /\ shouldProcessMessage(m.targetDeviceId, deviceId)
           /\ i # 0
        THEN [chan |-> "query-action", target |-> m.targetDeviceId,
              action |-> m.action, hash |-> m.queryHash,
              status |-> w.queries[i].status, data |-> w.queries[i].data]
        ELSE DeliveredMessage("query-action", m)

DeliverQueryAction(msgs) ==
    /\ handlers["query-action"] > 0
    /\ \E m \in msgs :
          /\ Commit(OnQueryAction(World, m))
          /\ lastEvent' = DeliveredQueryAction(World, m)
    /\ UNCHANGED <<lifeVars, routeVars, sideVars>>

\* The application adds a query to the cache (a component mounts)
AppAddQuery(keys) ==
    /\ \E k \in keys :
          /\ queryIndex(queries, hashKey(k)) = 0
          /\ Commit(notify([World EXCEPT !.queries = Append(@, initialQuery(k))]))
    /\ lastEvent' = Happened("cache")
    /\ UNCHANGED <<lifeVars, routeVars, sideVars>>

\* The application starts a fetch of a cached query
AppFetch ==
    /\ \E i \in 1..Len(queries) :
          /\ queries[i].fetchStatus = "idle"
          /\ Commit(queryFetch(World, i, "keep", FALSE))
    /\ lastEvent' = Happened("cache")
    /\ UNCHANGED <<lifeVars, routeVars, sideVars>>

\* A running fetch settles: only a queryFn that settles can do so
FetchSettles ==
    /\ \E i \in 1..Len(queries), r \in ServerData \cup {"error"} :
          /\ queries[i].fetchStatus = "fetching"
          /\ queries[i].retryer = "normal"
          /\ Commit(setState(World, i,
                 IF r = "error"
                 THEN [queries[i] EXCEPT !.status = "error", !.fetchStatus = "idle",
                                         !.retryer = "none"]
                 ELSE [queries[i] EXCEPT !.status = "success", !.data = r,
                                         !.fetchStatus = "idle", !.retryer = "none",
                                         !.invalidated = FALSE]))
    /\ lastEvent' = Happened("cache")
    /\ UNCHANGED <<lifeVars, routeVars, sideVars>>

\* A paused fetch continues once the process is online again
FetchContinues ==
    /\ online
    /\ \E i \in 1..Len(queries) :
          /\ queries[i].fetchStatus = "paused"
          /\ Commit(setState(World, i, [queries[i] EXCEPT !.fetchStatus = "fetching"]))
    /\ lastEvent' = Happened("cache")
    /\ UNCHANGED <<lifeVars, routeVars, sideVars>>

\* The application starts a mutation: the mutation cache gains a record
AppMutate ==
    /\ Len(mutations) < MaxMutations
    /\ Commit([World EXCEPT !.mutations =
                  Append(@, [id |-> Len(mutations) + 1, status |-> "pending"])])
    /\ lastEvent' = Happened("mutation")
    /\ UNCHANGED <<lifeVars, routeVars, sideVars>>

\* A pending mutation settles
MutationSettles ==
    /\ \E i \in 1..Len(mutations), r \in {"success", "error"} :
          /\ mutations[i].status = "pending"
          /\ Commit([World EXCEPT !.mutations[i].status = r])
    /\ lastEvent' = Happened("mutation")
    /\ UNCHANGED <<lifeVars, routeVars, sideVars>>

--------------------------------------------------------------------------
(* Events of the storage, network and command handlers *)

\* the event leaves the caches alone and makes the socket.emit calls em
Side(em) ==
    /\ emitted' = em
    /\ changeLog' = <<>>
    /\ UNCHANGED <<queries, mutations, online, mirror, tracking>>

DeliverAsyncStorageActionWithin(msgs, running) ==
    /\ handlers["async-storage-action"] > 0
    /\ \E m \in msgs :
          /\ Len(storageTasks) + Len(OnAsyncStorageAction(m).tasks) <= running
          /\ storageTasks' = storageTasks \o OnAsyncStorageAction(m).tasks
          /\ Side(OnAsyncStorageAction(m).emitted)
          /\ lastEvent' = [chan |-> "async-storage-action",
                           target |-> m.targetDeviceId, message |-> m]
    /\ UNCHANGED <<lifeVars, routeVars, cfgVars, store, netVars, cmdVars>>

DeliverAsyncStorageAction(msgs) ==
    DeliverAsyncStorageActionWithin(msgs, MaxStorageTasks)

DeliverRequestAsyncStorage ==
    /\ handlers["request-async-storage"] > 0
    /\ \E m \in AsyncStorageRequestMessages :
          /\ Len(storageTasks) + Len(OnRequestAsyncStorage(m).tasks) <= MaxStorageTasks
          /\ storageTasks' = storageTasks \o OnRequestAsyncStorage(m).tasks
          /\ Side(OnRequestAsyncStorage(m).emitted)
          /\ lastEvent' = Delivered("request-async-storage", m.targetDeviceId)
    /\ UNCHANGED <<lifeVars, routeVars, cfgVars, store, netVars, cmdVars>>

\* An awaited storage call completes (ok) or rejects; a rejection is caught
\* and logged and ends the run
StorageResumes ==
    /\ \E i \in 1..Len(storageTasks), ok \in BOOLEAN :
          LET r == IF ok THEN resumeStorage(store, storageTasks[i])
                   ELSE rejectStorage(store, storageTasks[i])
          IN  /\ store' = r.store
              /\ storageTasks' = SubSeq(storageTasks, 1, i - 1) \o r.tasks
                                 \o SubSeq(storageTasks, i + 1, Len(storageTasks))
              /\ Side(r.emitted)
              /\ lastEvent' = [chan |-> "storage", target |-> "-",
                               rejected |-> ~ok]
    /\ UNCHANGED <<lifeVars, routeVars, cfgVars, netVars, cmdVars>>

DeliverNetworkMonitoringAction ==
    /\ handlers["network-monitoring-action"] > 0
    /\ \E m \in NetworkActionMessages :
          /\ slots' = OnNetworkMonitoringAction(Net, m).slots
          /\ taps' = OnNetworkMonitoringAction(Net, m).taps
          /\ lastEvent' = [chan |-> "network-monitoring-action",
                           target |-> m.targetDeviceId, action |-> m.action]
    /\ Side(<<>>)
    /\ UNCHANGED <<lifeVars, routeVars, cfgVars, storeVars, cmdVars>>

DeliverRequestNetworkMonitoring ==
    /\ handlers["request-network-monitoring"] > 0
    /\ \E m \in NetworkRequestMessages :
          /\ slots' = OnRequestNetworkMonitoring(Net, m).slots
          /\ taps' = OnRequestNetworkMonitoring(Net, m).taps
          /\ lastEvent' = Delivered("request-network-monitoring", m.targetDeviceId)
    /\ Side(<<>>)
    /\ UNCHANGED <<lifeVars, routeVars, cfgVars, storeVars, cmdVars>>

DeliverExpoCommandAction(msgs) ==
    /\ handlers["expo-command-action"] > 0
    /\ \E m \in msgs :
          LET started == OnExpoCommandAction(m)
          IN  /\ Len(calls) + Len(started) <= MaxCalls
              /\ calls' = calls \o started
              /\ cmdTasks' = cmdTasks \o
                    [i \in 1..Len(SelectSeq(started,
                                            LAMBDA c : c.promise = "pending"))
                       |-> Len(calls) + i]
              /\ Side(IF started = <<>> THEN <<>>
                      ELSE sentResults(started[1].results))
              /\ lastEvent' = Delivered("expo-command-action", m.targetDeviceId)
    /\ UNCHANGED <<lifeVars, routeVars, cfgVars, storeVars, netVars,
                   implementations>>

\* The implementation awaited by a call settles; the call emits its result
ImplementationSettles ==
    /\ \E i \in 1..Len(cmdTasks) :
          \E o \in outcomesOf(calls[cmdTasks[i]].invoked) :
             LET c == cmdTasks[i]
                 r == resultOf(calls[c].command, calls[c].dev, o)
             IN  /\ calls' = [calls EXCEPT ![c].results = Append(@, r),
                                           ![c].promise = "resolved",
                                           ![c].outcome = o]
                 /\ cmdTasks' = SubSeq(cmdTasks, 1, i - 1)
                                \o SubSeq(cmdTasks, i + 1, Len(cmdTasks))
                 /\ Side(sentResults(<<r>>))
    /\ lastEvent' = Happened("command-settled")
    /\ UNCHANGED <<lifeVars, routeVars, cfgVars, storeVars, netVars,
                   implementations>>

DeliverRequestExpoDevToolsStatus ==
    /\ handlers["request-expo-devtools-status"] > 0
    /\ \E m \in ExpoDevToolsRequestMessages :
          /\ Side(OnRequestExpoDevToolsStatus(m))
          /\ lastEvent' = Delivered("request-expo-devtools-status", m.targetDeviceId)
    /\ UNCHANGED <<lifeVars, routeVars, sideVars>>

\* The application replaces command implementations
AppSetImplementations(objects) ==
    /\ \E given \in objects :
          /\ implementations' = setExpoCommandImplementations(implementations, given)
          /\ lastEvent' = [chan |-> "set-implementations", target |-> "-",
                           given |-> given]
    /\ Side(<<>>)
    /\ UNCHANGED <<lifeVars, routeVars, cfgVars, storeVars, netVars,
                   cmdTasks, calls>>

\* The application calls one of the single setters
AppSetImplementation(setters) ==
    /\ \E setter \in setters, implementation \in Functions :
          /\ implementations' =
                 setImplementation(implementations, setter, implementation)
          /\ lastEvent' = [chan |-> "set-implementation", target |-> "-",
                           setter |-> setter, given |-> implementation]
    /\ Side(<<>>)
    /\ UNCHANGED <<lifeVars, routeVars, cfgVars, storeVars, netVars,
                   cmdTasks, calls>>

--------------------------------------------------------------------------
(* The package entry point: what index.ts exports under each name *)

NodeEnvs == {"development", "production", "test"}

\* A variant that exports the implementations in every build
exportsImplementationAlways(env) == TRUE

\* `if (process.env.NODE_ENV !== "production")`: the two names are bound to
\* the implementations, otherwise to functions that do nothing
exportsImplementation(env) == env # "production"

\* the object the disabled hook returns
disabledHook ==
    [isConnected |-> FALSE, socket |-> "null", users |-> <<>>]

\* The component calls the exported useSyncQueriesExternal
CallHook ==
    IF exportsImplementation(nodeEnv) THEN Render
    ELSE /\ hook \in {"none", "disabled"}
         /\ hook' = "disabled"
         /\ lastEvent' = [chan |-> "render", target |-> "-",
                          returned |-> disabledHook]
         /\ Side(<<>>)
         /\ UNCHANGED <<isConnected, handlers, cacheListeners, routeVars,
                        sideVars>>

\* The application calls the exported setExpoCommandImplementations
CallSetExpoCommandImplementations(objects) ==
    IF exportsImplementation(nodeEnv) THEN AppSetImplementations(objects)
    ELSE /\ \E given \in objects :
               lastEvent' = [chan |-> "set-implementations", target |-> "-",
                             given |-> given]
         /\ Side(<<>>)
         /\ UNCHANGED <<lifeVars, routeVars, sideVars>>

\* shouldProcessMessage applied to a pair of identifiers
Route ==
    /\ rtResult = <<>>
    /\ rtResult' = <<shouldProcessMessage(rtTarget, rtCurrent)>>
    /\ UNCHANGED <<rtTarget, rtCurrent, syncVars, lifeVars, sideVars,
                   lastEvent, tracking>>

NextMessage ==
    /\ rtResult # <<>>
    /\ rtTarget' \in DeviceIds
    /\ rtCurrent' \in DeviceIds
    /\ rtResult' = <<>>
    /\ UNCHANGED <<syncVars, lifeVars, sideVars, lastEvent, tracking>>

--------------------------------------------------------------------------
(* Specification of the sync coordinator *)

\* nothing installed, empty caches
InitProcess ==
    /\ isConnected = FALSE
    /\ handlers = [c \in Channels |-> 0]
    /\ cacheListeners = 0
    /\ queries = <<>>
    /\ mutations = <<>>
    /\ online = TRUE
    /\ emitted = <<>>
    /\ changeLog = <<>>
    /\ mirror = NoSync
    /\ lastEvent = Happened("init")
    /\ storageTasks = <<>>
    /\ slots = [k \in Kinds |-> FALSE]
    /\ taps = [k \in Kinds |-> 0]
    /\ implementations = [t \in CommandTypes |-> "default"]
    /\ cmdTasks = <<>>
    /\ calls = <<>>

\* a development build in which the hook has not been called yet; the
\* component passes no expoDevTools option
InitUnrendered ==
    /\ InitProcess
    /\ nodeEnv = "development"
    /\ expoDevTools = "absent"

\* the state after the first render with a deviceId that passes the validation
InitProgram ==
    /\ InitUnrendered
    /\ deviceIdText = <<"a">>
    /\ hook = "mounted"

\* the router is not under test: one fixed pair
InitRouteFixed ==
    /\ rtTarget = deviceId
    /\ rtCurrent = deviceId
    /\ rtResult = <<>>

\* no storage collaborator, no network monitoring configured
InitSync(track) ==
    /\ InitProgram
    /\ InitRouteFixed
    /\ tracking = track
    /\ asyncStorage = FALSE
    /\ networkMonitoring = {}
    /\ runtime = NoRuntime
    /\ store = EmptyStore

Init == InitSync({})

\* One query under every action
Next ==
    \/ Connect
    \/ Disconnect
    \/ DeliverRequestInitialState
    \/ DeliverOnlineManager
    \/ DeliverQueryAction(OneQueryMessages)
    \/ AppAddQuery({<<1>>})
    \/ AppFetch
    \/ FetchSettles
    \/ FetchContinues
    \/ AppMutate
    \/ MutationSettles

Spec == Init /\ [][Next]_vars

\* Two queries, one key a prefix of the other, under the cache-level actions
NextCache ==
    \/ Connect
    \/ Disconnect
    \/ DeliverRequestInitialState
    \/ DeliverOnlineManager
    \/ DeliverQueryAction(CacheMessages)
    \/ AppAddQuery(Keys)
    \/ AppFetch
    \/ FetchSettles
    \/ FetchContinues
    \/ AppMutate
    \/ MutationSettles

SpecCache == Init /\ [][NextCache]_vars

\* One query under every action, with the dashboard's mirror recorded
InitMirror == InitSync({"mirror"})

SpecMirror == InitMirror /\ [][Next]_vars

--------------------------------------------------------------------------
(* Specification of the targeting router alone *)

InitRouter ==
    /\ InitProgram
    /\ tracking = {}
    /\ asyncStorage = FALSE
    /\ networkMonitoring = {}
    /\ runtime = NoRuntime
    /\ store = EmptyStore
    /\ rtTarget \in DeviceIds
    /\ rtCurrent \in DeviceIds
    /\ rtResult = <<>>

NextRouter == Route \/ NextMessage

SpecRouter == InitRouter /\ [][NextRouter]_vars

--------------------------------------------------------------------------
(* Specification of the targeted channels together *)

\* the props of the hook: storage and network monitoring absent or present
Configurations == {<<FALSE, {}>>, <<TRUE, {"fetch", "xhr"}>>}
InitialStores == {[EmptyStore EXCEPT !["k1"] = "v1"]}

TargetedQueryMessages ==
    MessagesFor({hashKey(<<1>>)}, {<<1>>}, {"ACTION-REMOVE"})

TargetedStorageMessages ==
    {m \in AsyncStorageActionMessages({"k1"}, {"REMOVE_ITEM"}) :
        m.key = "k1" /\ m.value = Undefined}

InitTargeted ==
    /\ InitProgram
    /\ InitRouteFixed
    /\ tracking = {}
    /\ \E c \in Configurations :
          /\ asyncStorage = c[1]
          /\ networkMonitoring = c[2]
    /\ runtime = NoRuntime
    /\ store \in InitialStores

NextTargeted ==
    \/ Connect
    \/ Disconnect
    \/ AppAddQuery({<<1>>})
    \/ DeliverOnlineManager
    \/ DeliverQueryAction(TargetedQueryMessages)
    \/ DeliverAsyncStorageAction(TargetedStorageMessages)
    \/ DeliverRequestAsyncStorage
    \/ StorageResumes
    \/ DeliverNetworkMonitoringAction
    \/ DeliverRequestNetworkMonitoring
    \/ DeliverExpoCommandAction(
          {m \in ExpoCommandActionMessages({"reload"}, {"c1"}) :
              m.targetDeviceId # Broadcast})
    \/ ImplementationSettles
    \/ DeliverRequestExpoDevToolsStatus

SpecTargeted == InitTargeted /\ [][NextTargeted]_vars

--------------------------------------------------------------------------
(* Specification of remote command execution *)

\* the command types sent by the dashboard: a known one and one that is
\* not a command type
SentTypes == {"reload", UnknownType}
SuppliedKeys == {[reload |-> "fnA"]}

NextCmd ==
    \/ Connect
    \/ Disconnect
    \/ AppSetImplementations(SuppliedKeys)
    \/ DeliverExpoCommandAction(
          {m \in ExpoCommandActionMessages(SentTypes, CommandIds) :
              /\ m.targetDeviceId # OtherDevice
              /\ m.commandId = "c2" =>
                    m.targetDeviceId = deviceId /\ m.command = "reload"})
    \/ ImplementationSettles

\* an awaited implementation settles: its promise resolves or rejects
SpecCmd == Init /\ [][NextCmd]_vars /\ WF_vars(ImplementationSettles)

--------------------------------------------------------------------------
(* Specification of the implementation registry: the application replaces
   implementations through either entry point while commands arrive *)

RegistryTypes == {"reload", "toggle-inspector"}
RegistryObjects == Partial({"reload", "toggleInspector"})
RegistrySetters ==
    {"setReloadImplementation", "setToggleInspectorImplementation"}

NextRegistry ==
    \/ Connect
    \/ AppSetImplementations(RegistryObjects)
    \/ AppSetImplementation(RegistrySetters)
    \/ DeliverExpoCommandAction(
          {m \in ExpoCommandActionMessages(RegistryTypes, {"c1"}) :
              m.targetDeviceId = deviceId})
    \/ ImplementationSettles

SpecRegistry == Init /\ [][NextRegistry]_vars

--------------------------------------------------------------------------
(* Specification of the forced loading state: one query that the application
   fetches while the dashboard triggers and restores its loading state *)

LoadingMessages == {m \in OneQueryMessages : m.action \in LoadingActions}

NextLoading ==
    \/ Connect
    \/ Disconnect
    \/ AppAddQuery({<<1>>})
    \/ AppFetch
    \/ FetchSettles
    \/ DeliverQueryAction(LoadingMessages)

SpecLoading == Init /\ [][NextLoading]_vars

--------------------------------------------------------------------------
(* Specification of the interceptor lifecycle: every networkMonitoring
   configuration, with enable and disable messages arriving *)

InitNet ==
    /\ InitProgram
    /\ InitRouteFixed
    /\ tracking = {}
    /\ asyncStorage = FALSE
    /\ networkMonitoring \in SUBSET Kinds
    /\ runtime = NoRuntime
    /\ store = EmptyStore

NextNet ==
    \/ Connect
    \/ Disconnect
    \/ DeliverNetworkMonitoringAction
    \/ DeliverRequestNetworkMonitoring

SpecNet == InitNet /\ [][NextNet]_vars

--------------------------------------------------------------------------
(* Specification of the hook's setup and teardown: the first call with any
   deviceId text, then connections whose cleanup may meet a throwing call *)

MaxIdLen == 2

DeviceIdTexts ==
    {Missing} \cup UNION {[1..n -> Characters] : n \in 0..MaxIdLen}

InitSetup ==
    /\ InitUnrendered
    /\ InitRouteFixed
    /\ tracking = {}
    /\ asyncStorage = FALSE
    /\ networkMonitoring \in {{}, Kinds}
    /\ runtime = NoRuntime
    /\ store = EmptyStore
    /\ deviceIdText \in DeviceIdTexts
    /\ hook = "none"

NextSetup ==
    \/ Render
    \/ Connect
    \/ Disconnect
    \/ DeliverNetworkMonitoringAction

SpecSetup == InitSetup /\ [][NextSetup]_vars

NextTeardown ==
    \/ Connect
    \/ Teardown(0..Len(CleanupSteps))
    \/ DeliverNetworkMonitoringAction

SpecTeardown == InitNet /\ [][NextTeardown]_vars

--------------------------------------------------------------------------
(* Specification of the default implementations: commands arrive in a
   runtime that exposes some of the native APIs *)

MaxChainCalls == 1

\* the properties the chain of a command type reads
capabilitiesOf(t) ==
    UNION {defaultChain[t][i].needs : i \in 1..Len(defaultChain[t])}

\* every presence of the APIs one chain reads, with and without global.require
Runtimes ==
    UNION {{[require |-> r,
             works |-> {c \in capabilitiesOf(t) : f[c] = "works"},
             throws |-> {c \in capabilitiesOf(t) : f[c] = "throws"}] :
              r \in BOOLEAN, f \in [capabilitiesOf(t) -> Presence]} :
           t \in CommandTypes}

InitChain ==
    /\ InitProgram
    /\ InitRouteFixed
    /\ tracking = {}
    /\ asyncStorage = FALSE
    /\ networkMonitoring = {}
    /\ runtime \in Runtimes
    /\ store = EmptyStore

NextChain ==
    \/ Connect
    \/ DeliverExpoCommandAction(
          {m \in ExpoCommandActionMessages(CommandTypes, {"c1"}) :
              m.targetDeviceId = deviceId /\ Len(calls) < MaxChainCalls})
    \/ ImplementationSettles

SpecChain == InitChain /\ [][NextChain]_vars

--------------------------------------------------------------------------
(* Properties *)

--------------------------------------------------------------------------
(* Specification of the package in each build: the component calls the
   exported hook with any deviceId and configuration, the application
   replaces implementations, the socket connects and commands arrive *)

BuildDeviceIdTexts == {Missing, <<>>, <<"a">>}

InitBuild ==
    /\ InitProcess
    /\ InitRouteFixed
    /\ tracking = {}
    /\ asyncStorage \in BOOLEAN
    /\ networkMonitoring \in {{}, Kinds}
    /\ runtime = NoRuntime
    /\ store = EmptyStore
    /\ deviceIdText \in BuildDeviceIdTexts
    /\ expoDevTools \in {"absent", "enabled"}
    /\ nodeEnv \in NodeEnvs
    /\ hook = "none"

NextBuild ==
    \/ CallHook
    \/ CallSetExpoCommandImplementations(SuppliedKeys)
    \/ Connect
    \/ Disconnect
    \/ DeliverRequestInitialState
    \/ DeliverNetworkMonitoringAction
    \/ DeliverExpoCommandAction(
          {m \in ExpoCommandActionMessages({"reload"}, {"c1"}) :
              m.targetDeviceId = deviceId})
    \/ ImplementationSettles

SpecBuild == InitBuild /\ [][NextBuild]_vars

--------------------------------------------------------------------------
(* Specification of the Expo DevTools channels under each expoDevTools
   option: commands and status requests arrive while connected *)

\* props.expoDevTools: undefined, {enabled: false} or {enabled: true}
ExpoDevToolsOptions == {"absent", "disabled", "enabled"}

InitDevTools ==
    /\ InitProcess
    /\ InitRouteFixed
    /\ tracking = {}
    /\ asyncStorage = FALSE
    /\ networkMonitoring = {}
    /\ runtime = NoRuntime
    /\ store = EmptyStore
    /\ deviceIdText = <<"a">>
    /\ expoDevTools \in ExpoDevToolsOptions
    /\ nodeEnv = "development"
    /\ hook = "mounted"

NextDevTools ==
    \/ Connect
    \/ Disconnect
    \/ AppAddQuery({<<1>>})
    \/ AppSetImplementations(SuppliedKeys)
    \/ DeliverExpoCommandAction(ExpoCommandActionMessages({"reload"}, {"c1"}))
    \/ ImplementationSettles
    \/ DeliverRequestExpoDevToolsStatus

SpecDevTools == InitDevTools /\ [][NextDevTools]_vars

--------------------------------------------------------------------------
(* Specification of the storage channels with and without a storage
   collaborator: every storage action and state request arrives *)

RelayMessages == AsyncStorageActionMessages({"k1"}, StorageActions)

InitRelay ==
    /\ InitProgram
    /\ InitRouteFixed
    /\ tracking = {}
    /\ asyncStorage \in BOOLEAN
    /\ networkMonitoring = {}
    /\ runtime = NoRuntime
    /\ store \in InitialStores

NextRelay ==
    \/ Connect
    \/ Disconnect
    \/ DeliverAsyncStorageAction(RelayMessages)
    \/ DeliverRequestAsyncStorage
    \/ StorageResumes

SpecRelay == InitRelay /\ [][NextRelay]_vars

--------------------------------------------------------------------------
(* Specification of the cache-wide and flag actions: two queries and a
   mutation, with the clear-cache and online actions aimed at any hash and
   every other action aimed at a hash no query has; messages are recorded *)

ClearActions == {"ACTION-CLEAR-QUERY-CACHE", "ACTION-CLEAR-MUTATION-CACHE"}

WholesaleMessages ==
    {m \in QueryActionMessages :
        \/ m.action \in ClearActions \cup OnlineActions
        \/ m.queryHash = UnknownHash}

NextWholesale ==
    \/ Connect
    \/ Disconnect
    \/ AppAddQuery(Keys)
    \/ AppFetch
    \/ AppMutate
    \/ DeliverOnlineManager
    \/ DeliverQueryAction(WholesaleMessages)

SpecWholesale == InitSync({"messages"}) /\ [][NextWholesale]_vars

--------------------------------------------------------------------------
(* Specification of the per-query actions that start a fetch, write data or
   are not handled: two queries, fetches started by the dashboard alone,
   messages recorded *)

\* an action string outside the QueryActions type
UnknownAction == "ACTION-UNKNOWN"

PerQueryMessages ==
    MessagesFor(Hashes \cup {UnknownHash}, Keys,
                {"ACTION-REFETCH", "ACTION-DATA-UPDATE", "success"})
    \cup [queryHash : Hashes, queryKey : {<<1>>}, data : {NoData},
          action : {UnknownAction}, targetDeviceId : Targets]

NextPerQuery ==
    \/ Connect
    \/ Disconnect
    \/ AppAddQuery(Keys)
    \/ FetchSettles
    \/ DeliverQueryAction(PerQueryMessages)

SpecPerQuery == InitSync({"messages"}) /\ [][NextPerQuery]_vars

--------------------------------------------------------------------------
(* Specification of failing collaborators: a storage call rejects, a fetch
   started by the dashboard fails, a replaced implementation throws, while
   an interceptor is installed *)

FailingStorageMessages ==
    {m \in AsyncStorageActionMessages({"k1"}, {"SET_ITEM"}) :
        m.key = "k1" /\ m.value = "v1" /\ m.targetDeviceId = deviceId}

FailingQueryMessages ==
    {m \in MessagesFor({hashKey(<<1>>)}, {<<1>>}, {"ACTION-REFETCH"}) :
        m.targetDeviceId = deviceId}

InitFailures ==
    /\ InitProgram
    /\ InitRouteFixed
    /\ tracking = {}
    /\ asyncStorage = TRUE
    /\ networkMonitoring = {"fetch"}
    /\ runtime = NoRuntime
    /\ store = EmptyStore

NextFailures ==
    \/ Connect
    \/ Disconnect
    \/ AppAddQuery({<<1>>})
    \/ DeliverQueryAction(FailingQueryMessages)
    \/ FetchSettles
    \/ DeliverAsyncStorageAction(FailingStorageMessages)
    \/ StorageResumes
    \/ AppSetImplementations(SuppliedKeys)
    \/ DeliverExpoCommandAction(
          {m \in ExpoCommandActionMessages({"reload"}, {"c1"}) :
              m.targetDeviceId = deviceId /\ Len(calls) < MaxChainCalls})
    \/ ImplementationSettles

SpecFailures == InitFailures /\ [][NextFailures]_vars

\* Storage runs that interleave: a store holding both keys, a device with the
\* storage collaborator, and targeted actions that read, write and remove
FullStore == [k \in StoreKeys |-> "v1"]

InterleavedMessages ==
    {m \in AsyncStorageActionMessages({"k2"}, {"GET_ALL_KEYS", "REMOVE_ITEM",
                                               "SET_ITEM"}) :
        /\ m.targetDeviceId = deviceId
        /\ m.key = "k2"
        /\ m.value = "v1"}

InitInterleave ==
    /\ InitProgram
    /\ InitRouteFixed
    /\ tracking = {}
    /\ asyncStorage = TRUE
    /\ networkMonitoring = {}
    /\ runtime = NoRuntime
    /\ store = FullStore

NextInterleave ==
    \/ Connect
    \/ DeliverAsyncStorageActionWithin(InterleavedMessages, MaxInterleaved)
    \/ StorageResumes

SpecInterleave == InitInterleave /\ [][NextInterleave]_vars

Live == SyncMessage(World)

syncsOf(em) == SelectSeq(em, LAMBDA e : e.event = "query-sync")
changeSyncsOf(em) == SelectSeq(em, LAMBDA e : e.site = "cache-change")
payloads(em) == [i \in 1..Len(em) |-> em[i].msg]

hashesOf(snapshot) ==
    {snapshot.queries[i].queryHash : i \in 1..Len(snapshot.queries)}

ConnectedActive ==
    /\ isConnected
    /\ \A c \in Channels : handlers[c] > 0
    /\ cacheListeners > 0

\* C1: shouldProcessMessage(targetDeviceId, currentDeviceId) is true exactly
\* when the target equals the current device id or is the sentinel "All".
C1_RouterAcceptsOwnIdOrAll ==
    rtResult # <<>> =>
        (rtResult[1] <=> (rtTarget = rtCurrent \/ rtTarget = "All"))

\* C1 witness: the sentinel was accepted by a device with another id
C1_Witness ==
    /\ rtResult = <<TRUE>>
    /\ rtTarget = "All"
    /\ rtCurrent = "dev-C"

\* everything a handler can change besides the emissions of the event
ProgramState ==
    <<queries, mutations, online, store, storageTasks, slots, taps,
      implementations, cmdTasks, calls>>

TargetedChannels == Channels \ {"request-initial-state"}

\* C2: on each of the eight targeted channels, a message whose targetDeviceId
\* is neither this device's id nor "All" changes nothing (caches, online flag,
\* storage, interceptors, command implementations), starts no storage run,
\* invokes no command and emits no message.
C2_UntargetedMessageHasNoEffect ==
    [][(/\ lastEvent'.chan \in TargetedChannels
        /\ lastEvent'.target \notin {deviceId, "All"})
          => /\ UNCHANGED ProgramState
             /\ emitted' = <<>>]_vars

\* C2 witness: a command addressed to another device was delivered while the
\* cache held a query, the store an item and the interceptors were installed
C2_Witness ==
    /\ lastEvent = Delivered("expo-command-action", OtherDevice)
    /\ Len(queries) > 0
    /\ store["k1"] # Absent
    /\ slots["fetch"]
    /\ calls # <<>>

\* C3: while connected, the query-sync messages emitted by the cache-change
\* listener during an event are, in order, exactly the sync messages due at the
\* successive cache changes of that event: one per change, each carrying the
\* cache as of that change.
C3_OneSyncPerCacheChange ==
    /\ payloads(changeSyncsOf(emitted)) = changeLog
    /\ \A i \in 1..Len(emitted) :
          emitted[i].site = "cache-change" => emitted[i].event = "query-sync"

\* C3 witness: one event caused two cache changes and both were emitted
C3_Witness ==
    /\ ConnectedActive
    /\ Len(changeLog) = 2
    /\ changeLog[1] # changeLog[2]
    /\ Len(emitted) = 2

\* C4: while connected, a step that changes the mutation cache emits a
\* query-sync whose latest payload carries the updated caches.
C4_MutationChangeEmitsSync ==
    [][(ConnectedActive /\ ConnectedActive' /\ mutations' # mutations)
          => /\ syncsOf(emitted') # <<>>
             /\ lastSync(emitted', NoSync) = Live']_vars

\* C5: a request-initial-state handled while connected emits exactly one
\* message, a query-sync of type "dehydrated-state" carrying the snapshot of
\* the caches at that moment, the current online flag and this device's id,
\* and leaves the caches and the flag unchanged.
C5_InitialStateRequestEmitsOneSnapshot ==
    [][(ConnectedActive /\ lastEvent'.chan = "request-initial-state")
          => /\ Len(emitted') = 1
             /\ emitted'[1].event = "query-sync"
             /\ emitted'[1].msg =
                   [type |-> "dehydrated-state",
                    state |-> Dehydrate(queries, mutations),
                    isOnlineManagerOnline |-> online,
                    persistentDeviceId |-> deviceId]
             /\ UNCHANGED <<queries, mutations, online>>]_vars

\* C5 witness: a request was answered while the process was offline and the
\* caches held a query and a mutation
C5_Witness ==
    /\ ConnectedActive
    /\ lastEvent.chan = "request-initial-state"
    /\ Len(emitted) = 1
    /\ ~online
    /\ Len(queries) > 0
    /\ Len(mutations) > 0

\* the step handles message m of the query-action channel
HandlesQueryAction(m) ==
    /\ handlers["query-action"] > 0
    /\ lastEvent' = DeliveredQueryAction(World, m)
    /\ Commit(OnQueryAction(World, m))

\* C6: when a targeted ACTION-REMOVE for a cached query h is handled while
\* connected, a query-sync is emitted, and the next emitted query-sync snapshot
\* has no query of hash h and still has every other query of the cache.
C6_RemoveEvictsOnlyThatQuery ==
    [][\A m \in CacheMessages :
          (/\ ConnectedActive
           /\ m.action = "ACTION-REMOVE"
           /\ shouldProcessMessage(m.targetDeviceId, deviceId)
           /\ queryIndex(queries, m.queryHash) # 0
           /\ HandlesQueryAction(m))
          => /\ syncsOf(emitted') # <<>>
             /\ hashesOf(syncsOf(emitted')[1].msg.state) =
                   {queries[i].hash : i \in 1..Len(queries)} \ {m.queryHash}]_vars

\* C7: while connected, once a query-sync has been emitted, the most recent
\* query-sync equals the live state (both caches and the online flag).
C7_MirrorEqualsLiveState ==
    (ConnectedActive /\ mirror # NoSync) => mirror = Live

resultsOK(c) ==
    /\ Len(c.results) <= 1
    /\ \A k \in 1..Len(c.results) :
          /\ c.results[k].type = "expo-command-result"
          /\ c.results[k].command.status \in {"success", "error"}
          /\ c.results[k].command.id = c.command.id
          /\ c.results[k].persistentDeviceId = c.dev

\* C8: every call of executeExpoCommand emits at most one expo-command-result,
\* each with status "success" or "error", the id of the command passed in and
\* persistentDeviceId equal to the deviceId passed in; and every call
\* eventually has emitted exactly one.
C8_ExactlyOneResultPerCall ==
    /\ [](\A i \in 1..Len(calls) : resultsOK(calls[i]))
    /\ \A i \in 1..MaxCalls :
          (Len(calls) >= i) ~> (Len(calls) >= i /\ Len(calls[i].results) = 1)

\* C8 witness: a call that ran a default implementation has emitted its
\* success result while a later call is still awaiting its implementation
C8_Witness ==
    /\ Len(calls) = 2
    /\ calls[1].invoked = "default"
    /\ Len(calls[1].results) = 1
    /\ calls[1].results[1].command.status = "success"
    /\ calls[1].results[1].command.id = "c2"
    /\ calls[2].results = <<>>

\* C9: when the implementation invoked by a call has thrown or rejected, the
\* promise of the call is resolved and its one result has status "error" with
\* the error field equal to the message of the Error, or to the string form of
\* a value that is no Error.
C9_ImplementationFailureIsReported ==
    \A i \in 1..Len(calls) :
        calls[i].outcome.kind \notin {"pending", "resolved"} =>
            /\ calls[i].promise = "resolved"
            /\ Len(calls[i].results) = 1
            /\ calls[i].results[1].command.status = "error"
            /\ calls[i].results[1].command.error =
                  IF calls[i].outcome.kind = "Error"
                  THEN calls[i].outcome.message
                  ELSE calls[i].outcome.text

\* C9 witness: a replaced implementation threw an Error and the call reported
\* its message
C9_Witness ==
    \E i \in 1..Len(calls) :
        /\ calls[i].invoked \in Functions
        /\ calls[i].outcome = [kind |-> "Error", message |-> "boom"]
        /\ calls[i].results # <<>>
        /\ calls[i].results[1].command.error = "boom"

\* C10: a call whose command type is none of the nine command types invokes no
\* implementation, has emitted one result with status "error", and its promise
\* is resolved.
C10_UnknownTypeIsAnError ==
    \A i \in 1..Len(calls) :
        calls[i].command.type \notin CommandTypes =>
            /\ calls[i].invoked = "none"
            /\ calls[i].promise = "resolved"
            /\ Len(calls[i].results) = 1
            /\ calls[i].results[1].command.status = "error"

\* C10 witness: a command of an unknown type was executed and answered
C10_Witness ==
    /\ calls # <<>>
    /\ calls[1].command.type = UnknownType
    /\ calls[1].results # <<>>
    /\ emitted = sentResults(calls[1].results)

\* C11: once the application has supplied a function for "reload", a
\* targeted "reload" command invokes that function and not the default
\* chain, and its terminal result is "success" when the function resolves
\* and "error" when it throws; a "toggle-inspector" command that follows
\* still invokes the default chain while that entry was never replaced
terminalStatus(c) == c.results[Len(c.results)].command.status

C11_OverriddenReloadRunsCustom ==
    [][/\ \A i \in 1..Len(calls') :
             i > Len(calls) =>
               /\ (/\ calls'[i].command.type = "reload"
                   /\ implementations["reload"] \in Functions)
                  => calls'[i].invoked = implementations["reload"]
               /\ (/\ calls'[i].command.type = "toggle-inspector"
                   /\ implementations["toggle-inspector"] = "default")
                  => calls'[i].invoked = "default"
       /\ \A i \in 1..Len(calls') :
             (calls'[i].invoked \in Functions /\ calls'[i].promise = "resolved")
               => terminalStatus(calls'[i]) =
                     IF calls'[i].outcome = Resolved THEN "success" ELSE "error"
      ]_vars

C11_Witness ==
    /\ implementations["reload"] \in Functions
    /\ implementations["toggle-inspector"] = "default"
    /\ \E i, j \in 1..Len(calls) :
          /\ i < j
          /\ calls[i].command.type = "reload"
          /\ calls[i].invoked \in Functions
          /\ calls[i].promise = "resolved"
          /\ calls[j].command.type = "toggle-inspector"
          /\ calls[j].invoked = "default"

\* C12: the registry starts with the nine default chains, and every call of
\* setExpoCommandImplementations or of a single setter leaves in each entry
\* the value the call supplied for that type, or the entry's previous value
\* when the call supplied none; no other step changes the registry
suppliedBy(event, t) ==
    IF event.chan = "set-implementations"
    THEN {event.given[k] : k \in {kk \in DOMAIN event.given :
                                     ImplementationKeys[kk] = t}}
    ELSE IF event.chan = "set-implementation" /\ Setters[event.setter] = t
    THEN {event.given}
    ELSE {}

C12_RegistryHoldsLatestSupplied ==
    /\ \A t \in CommandTypes : implementations[t] = "default"
    /\ [][\A t \in CommandTypes :
             IF suppliedBy(lastEvent', t) # {}
             THEN implementations'[t] \in suppliedBy(lastEvent', t)
             ELSE implementations'[t] = implementations[t]]_vars

C12_Witness ==
    /\ lastEvent.chan = "set-implementations"
    /\ DOMAIN lastEvent.given = {"reload"}
    /\ lastEvent.given["reload"] = "fnB"
    /\ implementations["reload"] = "fnB"
    /\ implementations["toggle-inspector"] = "fnA"
    /\ \A t \in CommandTypes \ RegistryTypes : implementations[t] = "default"

\* the probes of a chain whose `if` holds in the runtime, in chain order
availableProbes(t) ==
    SelectSeq(defaultChain[t], LAMBDA probe : available(probe, runtime))

apisOf(natives) == [k \in 1..Len(natives) |-> natives[k].api]

layerRank(layer) ==
    CASE layer = "Expo" -> 1
      [] layer \in {"DevSettings", "Module"} -> 2
      [] layer = "NativeModules" -> 3

\* how many of the available probes run: up to the first whose call returns
\* or whose throw is not swallowed
probesRun(av) ==
    LET ends == {k \in 1..Len(av) :
                    presence(runtime, av[k].call) = "works" \/ ~av[k].guarded}
    IN  IF ends = {} THEN Len(av)
        ELSE CHOOSE k \in ends : \A j \in ends : k <= j

unavailable(probe) ==
    \/ probe.layer # "Expo" /\ ~runtime.require
    \/ \E c \in probe.needs : presence(runtime, c) = "absent"

noneAvailable(t) ==
    \A k \in 1..Len(defaultChain[t]) : unavailable(defaultChain[t][k])

\* C14: when no capability of a command's default chain is available, the
\* default implementation makes no native call and returns, and the result
\* emitted for the command has status "success"
C14_NothingAvailableIsASuccessfulNoOp ==
    \A i \in 1..Len(calls) :
       (calls[i].invoked = "default" /\ noneAvailable(calls[i].command.type))
          => /\ calls[i].natives = <<>>
             /\ calls[i].promise = "resolved" =>
                   /\ calls[i].outcome = Resolved
                   /\ Len(calls[i].results) = 1
                   /\ terminalStatus(calls[i]) = "success"

C14_Witness ==
    \E i \in 1..Len(calls) :
       /\ calls[i].command.type = "shake-device"
       /\ calls[i].invoked = "default"
       /\ runtime.require
       /\ presence(runtime, "DevSettings.show") = "works"
       /\ presence(runtime, "DevSettings.reload") = "absent"
       /\ presence(runtime, "DevMenu.show") = "absent"
       /\ calls[i].natives = <<>>
       /\ calls[i].promise = "resolved"
       /\ terminalStatus(calls[i]) = "success"

\* the latest event was a network-monitoring-action with this action that
\* the handler processed
Processed(event, action) ==
    /\ event.chan = "network-monitoring-action"
    /\ event.target \in {deviceId, Broadcast}
    /\ event.action = action

\* C15: a processed ACTION-ENABLE-NETWORK-MONITORING leaves exactly one tap
\* and one tracked disposer for each of the three kinds and installs nothing
\* for a kind that already had one; a processed
\* ACTION-DISABLE-NETWORK-MONITORING leaves no tap and no disposer, and
\* changes nothing when none was installed
C15_EnableAndDisableAreIdempotent ==
    [][/\ Processed(lastEvent', "ACTION-ENABLE-NETWORK-MONITORING") =>
             \A k \in Kinds :
                /\ slots'[k] /\ taps'[k] = 1
                /\ slots[k] => taps'[k] = taps[k]
       /\ Processed(lastEvent', "ACTION-DISABLE-NETWORK-MONITORING") =>
             /\ \A k \in Kinds : ~slots'[k] /\ taps'[k] = 0
             /\ (\A k \in Kinds : ~slots[k]) =>
                   /\ taps' = taps /\ slots' = slots
                   /\ emitted' = <<>>
                   /\ UNCHANGED <<queries, mutations, online, store,
                                  storageTasks, cmdVars, lifeVars>>
      ]_vars

\* fetch and xhr were installed at connect; the enable message has then
\* been processed
C15_Witness ==
    /\ networkMonitoring = {"fetch", "xhr"}
    /\ isConnected
    /\ Processed(lastEvent, "ACTION-ENABLE-NETWORK-MONITORING")
    /\ \A k \in Kinds : slots[k] /\ taps[k] = 1

\* the latest event was this loading action, handled for an existing query
Handled(event, action) ==
    /\ event.chan = "query-action"
    /\ "status" \in DOMAIN event
    /\ event.action = action

\* C16: a handled ACTION-TRIGGER-LOADING followed by a handled
\* ACTION-RESTORE-LOADING on the same query hash leaves the query with the
\* status and the data it had when the trigger arrived
C16_RestoreLoadingReturnsPreTriggerState ==
    [][(/\ Handled(lastEvent, "ACTION-TRIGGER-LOADING")
        /\ Handled(lastEvent', "ACTION-RESTORE-LOADING")
        /\ lastEvent'.hash = lastEvent.hash)
       => LET q == queries'[queryIndex(queries', lastEvent.hash)]
          IN  /\ q.status = lastEvent.status
              /\ q.data = lastEvent.data]_vars

\* C17: right after ACTION-RESTORE-LOADING has been handled for a query, no
\* never-resolving fetch is pending for that query, whatever triggers came
\* before
C17_NoForcedFetchAfterRestore ==
    Handled(lastEvent, "ACTION-RESTORE-LOADING")
       => LET q == queries[queryIndex(queries, lastEvent.hash)]
          IN  ~(q.fetchStatus # "idle" /\ q.retryer = "forced")

\* a deviceId text that is missing, empty or only whitespace
blank(text) ==
    \/ text = Missing
    \/ \A k \in 1..Len(text) : text[k] \in Whitespace

nothingInstalled ==
    /\ ~isConnected
    /\ \A c \in Channels : handlers[c] = 0
    /\ cacheListeners = 0
    /\ \A k \in Kinds : ~slots[k] /\ taps[k] = 0

\* C18: with a deviceId that is missing, empty or only whitespace the hook
\* call throws and is never mounted: no socket, no socket subscription, no
\* cache subscription and no interceptor exists at any time; with any other
\* deviceId the call does not throw
C18_BlankDeviceIdThrowsAtSetup ==
    /\ blank(deviceIdText) => hook \in {"none", "threw"} /\ nothingInstalled
    /\ ~blank(deviceIdText) => hook # "threw"

C18_Witness ==
    /\ deviceIdText = <<" ", "\t">>
    /\ networkMonitoring = Kinds
    /\ hook = "threw"
    /\ lastEvent = Happened("render")

\* C19: after a teardown in which one off() or one interceptor disposer
\* threw, every other interceptor's tap is removed, the cache-change
\* subscription is unsubscribed and every disposer slot is empty
C19_TeardownAttemptsEveryRemoval ==
    (lastEvent.chan = "disconnect" /\ hook = "crashed")
       => /\ cacheListeners = 0
          /\ \A k \in Kinds : ~slots[k]
          /\ \A k \in Kinds : lastEvent.threw # Dispose(k) => taps[k] = 0

\* C20: whenever no event is being handled, either the nine socket handlers
\* and the cache-change listener are all installed once (connected), or
\* none of them is and no interceptor tap is left (disconnected): connect
\* and teardown each go from one to the other in a single step
C20_AllInstalledOrNone ==
    /\ isConnected =>
          /\ \A c \in Channels : handlers[c] = 1
          /\ cacheListeners = 1
    /\ ~isConnected => nothingInstalled

\* the listeners the socket calls for one message of a channel, and the
\* listeners the query cache calls for one change
timesHandled(channel) == handlers[channel]

\* C21: after any sequence of connects, disconnects and reconnects at most
\* one handler per channel and at most one cache-change listener are
\* installed; while connected exactly one of each is, so a message is handled
\* once and every cache change of an event yields one query-sync
C21_OneHandlerPerChannelAfterReconnect ==
    /\ \A c \in Channels : timesHandled(c) <= 1
    /\ cacheListeners <= 1
    /\ isConnected =>
          /\ \A c \in Channels : timesHandled(c) = 1
          /\ cacheListeners = 1
          /\ Len(changeSyncsOf(emitted)) = Len(changeLog)

\* the effect has just run again: the cached query carries a forced error
\* state, which only a query-action handled in an earlier connection leaves
C21_Witness ==
    /\ lastEvent = Happened("connect")
    /\ \E i \in 1..Len(queries) : queries[i].stash # "none"
    /\ \A c \in Channels : timesHandled(c) = 1
    /\ cacheListeners = 1

\* C22: in a production build the exported hook installs no socket handler,
\* no cache subscription and no interceptor and emits nothing, whatever
\* deviceId and configuration it is given, and returns isConnected false
\* with a null socket; the exported setExpoCommandImplementations leaves
\* every command implementation as it was
C22_ProductionBuildIsDisabled ==
    nodeEnv = "production" =>
       /\ hook \in {"none", "disabled"}
       /\ nothingInstalled
       /\ emitted = <<>>
       /\ calls = <<>>
       /\ \A t \in CommandTypes : implementations[t] = "default"
       /\ lastEvent.chan = "render" =>
             /\ lastEvent.returned.isConnected = FALSE
             /\ lastEvent.returned.socket = "null"

\* a production build: the hook was called without a deviceId and with every
\* interceptor configured, and an implementation was then supplied
C22_Witness ==
    /\ nodeEnv = "production"
    /\ hook = "disabled"
    /\ deviceIdText = Missing
    /\ networkMonitoring = Kinds
    /\ lastEvent.chan = "set-implementations"
    /\ lastEvent.given = [reload |-> "fnA"]

\* C23: while the expoDevTools option is absent or its enabled flag is
\* false, no expo-command-action makes the device execute a command
\* implementation
C23_CommandsNeedExpoDevToolsEnabled ==
    expoDevTools # "enabled" =>
       \A i \in 1..Len(calls) : calls[i].invoked = "none"

targeted(event) == event.target \in {deviceId, Broadcast}

eventsOf(em) == [i \in 1..Len(em) |-> em[i].event]

\* C24: without a storage collaborator, a targeted async-storage-action
\* makes exactly one emission, async-storage-action-received with the message
\* as it arrived; a targeted request-async-storage makes exactly one,
\* request-async-storage-received; no storage call is started and no
\* async-storage-sync is ever emitted
C24_NoStorageHandsOverToApplication ==
    ~asyncStorage =>
       /\ (lastEvent.chan = "async-storage-action" /\ targeted(lastEvent))
             => /\ eventsOf(emitted) = <<"async-storage-action-received">>
                /\ emitted[1].msg = lastEvent.message
       /\ (lastEvent.chan = "request-async-storage" /\ targeted(lastEvent))
             => eventsOf(emitted) = <<"request-async-storage-received">>
       /\ \A i \in 1..Len(emitted) : emitted[i].event # "async-storage-sync"
       /\ storageTasks = <<>>
       /\ store \in InitialStores

\* a broadcast SET_ITEM was handed over as it arrived
C24_Witness ==
    /\ ~asyncStorage
    /\ lastEvent.chan = "async-storage-action"
    /\ lastEvent.target = Broadcast
    /\ lastEvent.message.action = "SET_ITEM"
    /\ lastEvent.message.value = "v1"
    /\ Len(emitted) = 1
    /\ emitted[1].msg = lastEvent.message

\* C25: a targeted request-expo-devtools-status makes exactly one emission,
\* an expo-command-result whose command has id "status-check", status
\* "success" and a result that reports Expo DevTools available; it invokes
\* no command implementation and changes neither the caches, the storage,
\* the interceptors, the registry nor what is installed
C25_StatusRequestIsAnsweredOnce ==
    [][(lastEvent'.chan = "request-expo-devtools-status" /\ targeted(lastEvent'))
          => /\ eventsOf(emitted') = <<"expo-command-result">>
             /\ emitted'[1].msg.type = "expo-command-result"
             /\ emitted'[1].msg.command.id = "status-check"
             /\ emitted'[1].msg.command.status = "success"
             /\ emitted'[1].msg.command.result = [expoDevToolsAvailable |-> TRUE]
             /\ emitted'[1].msg.persistentDeviceId = deviceId
             /\ UNCHANGED ProgramState
             /\ UNCHANGED lifeVars]_vars

\* a broadcast status request was answered while a command was still
\* awaiting its implementation
C25_Witness ==
    /\ lastEvent = Delivered("request-expo-devtools-status", Broadcast)
    /\ Len(emitted) = 1
    /\ emitted[1].msg.command.id = "status-check"
    /\ cmdTasks # <<>>
    /\ Len(queries) > 0

\* C26: in every state each interceptor kind has at most one tap, and it
\* has a tap exactly when the kind's slot holds a disposer; a step installs
\* a tap of a kind only when that slot was empty, so no slot holding the
\* disposer of a live tap is overwritten
C26_EveryTapIsTracked ==
    /\ [](\A k \in Kinds : /\ taps[k] \in {0, 1}
                           /\ taps[k] = 1 <=> slots[k])
    /\ [][\A k \in Kinds : taps'[k] > taps[k] => ~slots[k]]_vars

\* only websocket is configured: the effect has installed its tap and holds
\* its disposer, the other two kinds have neither
C26_Witness ==
    /\ networkMonitoring = {"websocket"}
    /\ lastEvent = Happened("connect")
    /\ slots = [k \in Kinds |-> k = "websocket"]
    /\ taps = [k \in Kinds |-> IF k = "websocket" THEN 1 ELSE 0]

\* the latest event was a query-action the handler processed, recorded with
\* its message
ProcessedQueryAction(event) ==
    /\ event.chan = "query-action"
    /\ targeted(event)
    /\ "message" \in DOMAIN event

\* C27: a targeted ACTION-CLEAR-QUERY-CACHE leaves the query cache empty and
\* a targeted ACTION-CLEAR-MUTATION-CACHE leaves the mutation cache empty,
\* whatever queryHash the message carries (a hash no query has included);
\* each leaves the other cache and the online flag as they were
C27_ClearCacheIgnoresTheHash ==
    [][ProcessedQueryAction(lastEvent') =>
          /\ lastEvent'.message.action = "ACTION-CLEAR-QUERY-CACHE" =>
                /\ queries' = <<>>
                /\ mutations' = mutations
                /\ online' = online
          /\ lastEvent'.message.action = "ACTION-CLEAR-MUTATION-CACHE" =>
                /\ mutations' = <<>>
                /\ queries' = queries
                /\ online' = online]_vars

\* a clear of the query cache that named a hash no query has emptied a cache
\* of two queries (one sync per removal) and kept the mutation and the flag
C27_Witness ==
    /\ ProcessedQueryAction(lastEvent)
    /\ lastEvent.message.action = "ACTION-CLEAR-QUERY-CACHE"
    /\ lastEvent.message.queryHash = UnknownHash
    /\ queries = <<>>
    /\ Len(changeLog) = 2
    /\ Len(mutations) = 1
    /\ ~online

\* no query of the cache has this hash
uncached(h) == \A i \in 1..Len(queries) : queries[i].hash # h

\* C28: a targeted query-action that is no clear-cache action and whose
\* queryHash no cached query has is dropped: both caches and the online
\* flag stay as they were (so no fetch is started) and nothing is emitted
C28_UnknownHashIsDroppedSilently ==
    [][(/\ ProcessedQueryAction(lastEvent')
        /\ lastEvent'.message.action \notin ClearActions
        /\ uncached(lastEvent'.message.queryHash))
          => /\ UNCHANGED <<queries, mutations, online>>
             /\ emitted' = <<>>]_vars

\* a data update that named the key of a cached query, but a hash no query
\* has, left the two cached queries as they were
C28_Witness ==
    /\ ProcessedQueryAction(lastEvent)
    /\ lastEvent.message.action = "ACTION-DATA-UPDATE"
    /\ lastEvent.message.queryHash = UnknownHash
    /\ lastEvent.message.queryKey = <<1>>
    /\ lastEvent.message.data = "d1"
    /\ isConnected
    /\ Len(queries) = 2
    /\ \A i \in 1..Len(queries) : queries[i].data = NoData
    /\ emitted = <<>>

\* the latest event was a targeted online action, on either channel
OnlineActionProcessed(event) ==
    /\ event.chan \in {"online-manager", "query-action"}
    /\ targeted(event)
    /\ "message" \in DOMAIN event
    /\ event.message.action \in OnlineActions

\* C29 as stated: a targeted ACTION-ONLINE-MANAGER-ONLINE leaves the online
\* flag true and a targeted ACTION-ONLINE-MANAGER-OFFLINE leaves it false, on
\* the online-manager channel and on the query-action channel alike,
\* whatever else the message carries
C29_BothChannelsSetTheOnlineFlag ==
    [][(/\ lastEvent'.chan \in {"online-manager", "query-action"}
        /\ targeted(lastEvent')
        /\ "message" \in DOMAIN lastEvent'
        /\ lastEvent'.message.action \in OnlineActions)
          => online' = (lastEvent'.message.action = "ACTION-ONLINE-MANAGER-ONLINE")
      ]_vars

\* C29: both channels write the same flag: a targeted online action on the
\* online-manager channel always leaves it true (ONLINE) or false (OFFLINE);
\* on the query-action channel it does so when the message's queryHash is
\* that of a cached query, and otherwise the message is dropped and the
\* flag stays as it was
C29_QueryActionPathNeedsACachedHash ==
    [][OnlineActionProcessed(lastEvent') =>
          IF \/ lastEvent'.chan = "online-manager"
             \/ ~uncached(lastEvent'.message.queryHash)
          THEN online' =
                  (lastEvent'.message.action = "ACTION-ONLINE-MANAGER-ONLINE")
          ELSE online' = online]_vars

\* the flag was switched off through the query-action channel by a message
\* that named a cached query
C29_Witness ==
    /\ OnlineActionProcessed(lastEvent)
    /\ lastEvent.chan = "query-action"
    /\ lastEvent.message.action = "ACTION-ONLINE-MANAGER-OFFLINE"
    /\ ~uncached(lastEvent.message.queryHash)
    /\ ~online

\* C30: a handled ACTION-RESTORE-LOADING starts a fetch exactly when the
\* query carried stashed previous options. With stashed options the running
\* fetch is cancelled without an error being recorded, the stash is cleared
\* and one fetch with the stashed options is started (two state changes: the
\* restore and the fetch); with none the fetch status becomes idle, no
\* fetch is started (one state change) and the options are kept
C30_RestoreRefetchesIffOptionsWereStashed ==
    [][Handled(lastEvent', "ACTION-RESTORE-LOADING") =>
          LET i == queryIndex(queries, lastEvent'.hash)
              before == queries[i]
              after == queries'[i]
          IN  /\ Len(queries') = Len(queries)
              /\ after.stash = "none"
              /\ after.data = before.data
              /\ after.status \in {before.status, "pending"}
              /\ IF before.stash # "none"
                 THEN /\ after.fetchStatus \in {"fetching", "paused"}
                      /\ after.forcedFn = (before.stash = "forced")
                      /\ after.retryer =
                            (IF before.stash = "forced" THEN "forced" ELSE "normal")
                      /\ Len(changeLog') = 2
                 ELSE /\ after.fetchStatus = "idle"
                      /\ after.retryer = "none"
                      /\ after.forcedFn = before.forcedFn
                      /\ Len(changeLog') = 1]_vars

\* a forced loading state was restored: the fetch that never settles is
\* gone and the application's own fetch is running
C30_Witness ==
    /\ Handled(lastEvent, "ACTION-RESTORE-LOADING")
    /\ Len(changeLog) = 2
    /\ LET q == queries[queryIndex(queries, lastEvent.hash)]
       IN  /\ q.fetchStatus = "fetching"
           /\ q.retryer = "normal"
           /\ ~q.forcedFn
           /\ q.stash = "none"

\* the position in the cache, before the step, of the query with this hash
cachedAt(h) == CHOOSE i \in 1..Len(queries) : queries[i].hash = h

\* the step is the failure of a running fetch
FetchFails(i) ==
    /\ i \in 1..Len(queries)
    /\ Len(queries') = Len(queries)
    /\ queries[i].fetchStatus = "fetching"
    /\ queries'[i].fetchStatus = "idle"
    /\ queries'[i].status = "error"

onlySyncs(em) == \A k \in 1..Len(em) : em[k].event = "query-sync"

\* C31: a handled ACTION-REFETCH returns with the fetch in flight: the
\* query is fetching (or paused) and has the data it had, and the handlers
\* stay installed. When the fetch later fails, the query records the error
\* and the only emissions are the query-syncs of that cache change; the hook
\* is not taken down and every handler stays installed
C31_RefetchIsFireAndForget ==
    [][/\ (/\ ProcessedQueryAction(lastEvent')
           /\ lastEvent'.message.action = "ACTION-REFETCH"
           /\ ~uncached(lastEvent'.message.queryHash))
          => LET i == cachedAt(lastEvent'.message.queryHash)
             IN  /\ Len(queries') = Len(queries)
                 /\ queries'[i].fetchStatus \in {"fetching", "paused"}
                 /\ queries'[i].data = queries[i].data
                 /\ queries'[i].status # "error" \/ queries[i].status = "error"
                 /\ onlySyncs(emitted')
                 /\ UNCHANGED lifeVars
       /\ (\E i \in 1..Len(queries) : FetchFails(i))
          => /\ onlySyncs(emitted')
             /\ Len(emitted') = IF isConnected THEN 1 ELSE 0
             /\ hook' = "mounted"
             /\ UNCHANGED lifeVars]_vars

\* a fetch that only an ACTION-REFETCH can have started has failed while
\* connected: one query-sync, everything still installed
C31_Witness ==
    /\ lastEvent = Happened("cache")
    /\ \E i \in 1..Len(queries) :
          queries[i].status = "error" /\ queries[i].fetchStatus = "idle"
    /\ ConnectedActive
    /\ Len(emitted) = 1
    /\ emitted[1].msg.state.queries[1].state.status = "error"

\* the actions no branch of the handler lists
Unhandled == {"success", UnknownAction}

\* C32: a targeted query-action that names a cached query and carries the
\* internal "success" action or a string that is no query action changes
\* neither cache nor the online flag, emits nothing and leaves the hook
\* and its handlers as they were
C32_UnhandledActionIsANoOp ==
    [][(/\ ProcessedQueryAction(lastEvent')
        /\ lastEvent'.message.action \in Unhandled
        /\ ~uncached(lastEvent'.message.queryHash))
          => /\ UNCHANGED <<queries, mutations, online>>
             /\ emitted' = <<>>
             /\ UNCHANGED lifeVars]_vars

\* a string that is no query action arrived for a cached idle query
C32_Witness ==
    /\ ProcessedQueryAction(lastEvent)
    /\ lastEvent.message.action = UnknownAction
    /\ ~uncached(lastEvent.message.queryHash)
    /\ queries[cachedAt(lastEvent.message.queryHash)].fetchStatus = "idle"
    /\ ConnectedActive
    /\ emitted = <<>>

\* C39: a targeted ACTION-DATA-UPDATE naming a cached query by its hash
\* gives that query the supplied data and neither creates nor modifies any
\* other query, whatever queryKey the message carries
C39_DataUpdateWritesTheHashedQuery ==
    [][(/\ ProcessedQueryAction(lastEvent')
        /\ lastEvent'.message.action = "ACTION-DATA-UPDATE"
        /\ ~uncached(lastEvent'.message.queryHash))
          => LET i == cachedAt(lastEvent'.message.queryHash)
             IN  /\ Len(queries') = Len(queries)
                 /\ queries'[i].data = lastEvent'.message.data
                 /\ \A j \in 1..Len(queries) : j # i => queries'[j] = queries[j]
      ]_vars

\* the calls suspended at their await
suspended(tasks) == {tasks[k] : k \in 1..Len(tasks)}

\* C33: a targeted command of a known type leaves its call suspended at the
\* await with nothing emitted; while calls are suspended, a query-action, a
\* cache change or a further expo-command-action is handled in one step that
\* emits its query-syncs, and every suspended call is still suspended,
\* without a result, after that step
C33_SuspendedCommandBlocksNothing ==
    [][/\ (lastEvent'.chan = "expo-command-action" /\ targeted(lastEvent')
           /\ Len(calls') > Len(calls)
           /\ calls'[Len(calls')].command.type \in CommandTypes)
          => /\ Len(calls') \in suspended(cmdTasks')
             /\ emitted' = <<>>
       /\ (cmdTasks # <<>>
           /\ lastEvent'.chan \in {"query-action", "cache", "expo-command-action"})
          => /\ \A c \in suspended(cmdTasks) :
                   /\ c \in suspended(cmdTasks')
                   /\ calls'[c].results = <<>>
                   /\ calls'[c].promise = "pending"
             /\ isConnected => payloads(changeSyncsOf(emitted')) = changeLog'
             /\ \A k \in 1..Len(emitted') :
                   emitted'[k].event # "expo-command-result"]_vars

\* while a reload was awaiting its implementation, a query-action removed
\* the cached query and the query-sync of that removal went out
C33_Witness ==
    /\ cmdTasks # <<>>
    /\ calls[cmdTasks[1]].results = <<>>
    /\ lastEvent = Delivered("query-action", deviceId)
    /\ queries = <<>>
    /\ Len(emitted) = 1
    /\ emitted[1].event = "query-sync"

\* the step is a failure of a collaborator: a storage call rejected, a
\* running fetch failed, or an awaited command implementation threw
StorageRejects == lastEvent'.chan = "storage" /\ lastEvent'.rejected
CommandThrows ==
    /\ lastEvent'.chan = "command-settled"
    /\ \E c \in suspended(cmdTasks) : calls'[c].outcome \in ThrownValues
CollaboratorFails ==
    \/ StorageRejects
    \/ lastEvent'.chan = "cache" /\ \E i \in 1..Len(queries) : FetchFails(i)
    \/ CommandThrows

\* C34: a rejected storage call, a failed fetch and a throwing command
\* implementation leave every handler, the cache subscription and every
\* interceptor installed as they were, and the other suspended runs
\* suspended; the failed fetch is synced as any cache change, the throwing
\* command is answered once with status "error", and the rejected storage
\* run emits nothing. Every later step still finds one handler per channel
\* and one cache subscription while connected
C34_NoCollaboratorFailureIsFatal ==
    [][/\ CollaboratorFails =>
             /\ UNCHANGED <<lifeVars, netVars, implementations>>
             /\ Len(storageTasks') >= Len(storageTasks) - 1
             /\ Len(cmdTasks') >= Len(cmdTasks) - 1
             /\ isConnected => payloads(changeSyncsOf(emitted')) = changeLog'
       /\ StorageRejects => emitted' = <<>>
       /\ CommandThrows =>
             /\ Len(emitted') = 1
             /\ emitted'[1].event = "expo-command-result"
             /\ emitted'[1].msg.command.status = "error"
       /\ isConnected' =>
             /\ \A c \in Channels : handlers'[c] = 1
             /\ cacheListeners' = 1
             /\ \A k \in Kinds : taps'[k] = IF k \in networkMonitoring THEN 1 ELSE 0
      ]_vars

\* a storage call has just rejected with nothing emitted, after a command
\* implementation threw and a fetch failed, and everything is still installed
C34_Witness ==
    /\ lastEvent.chan = "storage"
    /\ lastEvent.rejected
    /\ emitted = <<>>
    /\ isConnected
    /\ \A c \in Channels : handlers[c] = 1
    /\ taps["fetch"] = 1
    /\ \E c \in 1..Len(calls) : calls[c].outcome \in ThrownValues
    /\ \E i \in 1..Len(queries) : queries[i].status = "error"

\* the list a state message carries when it is the contents of store st
contentsOf(st) ==
    [i \in 1..Len(getAllKeys(st)) |->
        [key |-> getAllKeys(st)[i], value |-> st[getAllKeys(st)[i]]]]

Stores == [StoreKeys -> StoreValues \cup {Absent}]

\* C35: the item list of every emitted async-storage state message is the
\* contents of the store at one instant: it lists the keys present in some
\* store, each with the value stored under it, and no key that was absent
C35_StateListIsTheStoreAtOneInstant ==
    \A k \in 1..Len(emitted) :
       emitted[k].event = "async-storage-sync" =>
          \E st \in Stores : emitted[k].msg.state.items = contentsOf(st)

\* C36: while the coordinator is Disconnected no step emits anything on the
\* socket: no query-sync, no async-storage state and no expo-command-result,
\* also from a command or storage run that was suspended at the teardown
C36_NothingEmittedWhileDisconnected ==
    ~isConnected => emitted = <<>>

ExpoCalls == {"__expo.reload", "__expo.openDevMenu"}

\* C37: a call that ran a default implementation of a known command never
\* settles with an exception: every result it emits has status "success",
\* whatever its native calls did. In its chain a call that threw inside an
\* inner try/catch is followed by the next probe, a throwing call to the
\* Expo API (the unguarded first step) is the last call made, and only a
\* throwing call is followed by another
C37_DefaultsNeverYieldError ==
    \A c \in 1..Len(calls) :
       (calls[c].invoked = "default" /\ calls[c].command.type \in CommandTypes) =>
          /\ calls[c].outcome \in {Unsettled, Resolved}
          /\ \A k \in 1..Len(calls[c].results) :
                calls[c].results[k].command.status = "success"
          /\ \A k \in 1..Len(calls[c].natives) :
                /\ k < Len(calls[c].natives) =>
                      /\ calls[c].natives[k].result = "throws"
                      /\ calls[c].natives[k].api \notin ExpoCalls
                /\ (calls[c].natives[k].result = "throws"
                    /\ calls[c].natives[k].api \in ExpoCalls)
                      => k = Len(calls[c].natives)

\* a default reload whose DevSettings step threw and whose NativeModules step
\* ran has settled, and its result with status "success" has just gone out
C37_Witness ==
    /\ lastEvent = Happened("command-settled")
    /\ Len(emitted) = 1
    /\ emitted[1].msg.command.status = "success"
    /\ \E c \in 1..Len(calls) :
          /\ calls[c].invoked = "default"
          /\ calls[c].command.type = "reload"
          /\ calls[c].promise = "resolved"
          /\ Len(calls[c].natives) = 2
          /\ calls[c].natives[1] = [api |-> "DevSettings.reload", result |-> "throws"]
          /\ calls[c].natives[2].api = "DevMenu.reload"

\* C38: results go out in the order in which their commands arrived: of two
\* commands of known types, the first running an implementation supplied by
\* the application (which takes the time it takes), the later one has no
\* result while the one that arrived before it has none
C38_ResultsFollowArrivalOrder ==
    \A a, b \in 1..Len(calls) :
       (/\ a < b
        /\ calls[a].command.type \in CommandTypes
        /\ calls[a].invoked \notin {"default", "none"}
        /\ calls[b].command.type \in CommandTypes
        /\ calls[b].results # <<>>) => calls[a].results # <<>>

\* the taps and slots of a device on which exactly the kinds flagged in the
\* networkMonitoring option are installed, once each
configuredOnly ==
    /\ \A k \in Kinds : taps[k] = IF k \in networkMonitoring THEN 1 ELSE 0
    /\ \A k \in Kinds : slots[k] = (k \in networkMonitoring)

\* C40: right after every connect, the first or a later one, exactly the
\* kinds flagged in the networkMonitoring option have a tap (none when the
\* option is absent), whatever ENABLE and DISABLE messages earlier
\* connections handled; right after a disconnect no kind has a tap, so what
\* a message enabled or disabled at run time is gone
C40_ConnectInstallsTheConfiguredKinds ==
    /\ lastEvent = Happened("connect") => configuredOnly
    /\ lastEvent = Happened("disconnect") =>
          \A k \in Kinds : taps[k] = 0 /\ ~slots[k]

\* the device has just connected with only the fetch kind configured, and
\* only fetch has a tap
C40_Witness ==
    /\ lastEvent = Happened("connect")
    /\ networkMonitoring = {"fetch"}
    /\ taps = [k \in Kinds |-> IF k = "fetch" THEN 1 ELSE 0]

====
